---------------------------- MODULE Spec2Model ----------------------------
(***************************************************************************)
(* Verification model of the Vapi end-of-call webhook relays.              *)
(*                                                                         *)
(* The buffering relay (src/unnamed/part_000, second program, lines        *)
(* 152-424) is modelled as a state machine: callBuffer, the pending        *)
(* setTimeout callbacks, and the calls of sendToZapier.  Each action is    *)
(* one run-to-completion step of the Node event loop: a handler from its   *)
(* entry to its first await, or one timer callback.                        *)
(*                                                                         *)
(* JSON values are tagged: Leaf(s) is a scalar written as its text         *)
(* ("null", "", "0", "42", "ok"), Obj(f) is an object whose fields are the *)
(* function f.  A key that is not in DOMAIN f is an absent (undefined)     *)
(* property.                                                               *)
(***************************************************************************)
EXTENDS Integers, Sequences, FiniteSets, TLC

VARIABLES
    callBuffer,     \* Map callId -> [data, timeoutId]            (part_000:164)
    timers,         \* pending setTimeout callbacks               (part_000:382)
    nextTimeoutId,  \* identity of the next Timeout object
    deliveries,     \* the calls of sendToZapier, in order        (part_000:329)
    ghost,          \* per live entry: instance, folded events, ages
    nextInst,       \* number of the next callBuffer entry instance
    seen,           \* call ids for which an event was ingested
    nEvents,        \* inbound requests handled so far
    last,           \* what the last step did
    zapierUrl,      \* buffering relay: ZAPIER_HOOK_URL is set (part_000:160)
    posts,          \* the POST, if any, of each call of sendToZapier
    acks,           \* the response sent to each inbound request, in order
    errors,         \* the rejected deliveries, and whether a handler caught them
    relayEnv,       \* final-event relay: which settings are configured (part_001:10)
    relayReqs,      \* final-event relay: the requests received, in order
    enrichEnv,      \* enriching relay: which settings are configured (index.js:198)
    enrichReqs,     \* enriching relay: the requests received, in order
    sentCalls,      \* sentCalls relay: the call ids already sent (index.js:105)
    sentReqs,       \* sentCalls relay: the requests received, in order
    processedCalls, \* processedCalls relay: global.processedCalls (part_002:16-18)
    procEnv,        \* processedCalls relay: which settings are configured (part_002:12-13)
    procReqs,       \* processedCalls relay: the requests received, in order
    scoreArgs,      \* computeIdentityScore: the arguments of a call of it
    scoreResult     \* computeIdentityScore: how that call ended

\* The state of the buffering relay.
bufVars == <<callBuffer, timers, nextTimeoutId, deliveries, ghost, nextInst,
             seen, nEvents, last, zapierUrl, posts, acks, errors>>

\* The state of the final-event relay.
relayVars == <<relayEnv, relayReqs>>

\* The state of the enriching relay.
enrichVars == <<enrichEnv, enrichReqs>>

\* The state of the sentCalls relay.
sentVars == <<sentCalls, sentReqs>>

\* The state of the processedCalls relay.
procVars == <<processedCalls, procEnv, procReqs>>

\* A call of computeIdentityScore on its own.
scoreVars == <<scoreArgs, scoreResult>>

vars == <<bufVars, relayVars, enrichVars, sentVars, procVars, scoreVars>>

---------------------------------------------------------------------------
(* Bounds of the model. *)

\* Inbound webhook requests of the buffering relay in one behaviour.
MaxEvents == 3

\* Inbound webhook requests of the final-event relay in one behaviour.
MaxRequests == 2

---------------------------------------------------------------------------
(* JSON values and the JavaScript operators used on them. *)

Leaf(s) == [leaf |-> s]

Obj(f) == [obj |-> f]

IsObj(v) == "obj" \in DOMAIN v

EmptyFields == [k \in {} |-> Leaf("undefined")]

Undefined == Leaf("undefined")

Null == Leaf("null")

\* The scalars JavaScript treats as false in a condition.
Falsy == {"undefined", "null", "", "0", "false"}

\* The scalars of the model that are not strings (typeof v !== "string").
NonStringScalars == {"undefined", "null", "true", "false", "0", "42", "70", "50"}

Truthy(v) == IF IsObj(v) THEN TRUE ELSE v.leaf \notin Falsy

IsString(v) == IF IsObj(v) THEN FALSE ELSE v.leaf \notin NonStringScalars

\* v === undefined
IsUndefined(v) == IF IsObj(v) THEN FALSE ELSE v.leaf = "undefined"

\* v == null (null or undefined)
IsNullish(v) == IF IsObj(v) THEN FALSE ELSE v.leaf \in {"undefined", "null"}

\* o.k and o?.k on a value that is not null: undefined when o has no such property.
Get(o, k) == IF IsObj(o) THEN (IF k \in DOMAIN o.obj THEN o.obj[k] ELSE Undefined)
             ELSE Undefined

\* a || b
Or(a, b) == IF Truthy(a) THEN a ELSE b

\* a ?? b
Coalesce(a, b) == IF IsNullish(a) THEN b ELSE a

\* f with property k set to v.
Put(f, k, v) == [x \in DOMAIN f \cup {k} |-> IF x = k THEN v ELSE f[x]]

\* if (c) f[k] = v;
PutIf(c, f, k, v) == IF c THEN Put(f, k, v) ELSE f

\* The value at a path of property names, undefined when a step is missing.
RECURSIVE At(_, _)
At(o, path) == IF path = << >> THEN o ELSE At(Get(o, Head(path)), Tail(path))

---------------------------------------------------------------------------
(* deepMerge: part_000 lines 176-193. *)

RECURSIVE deepMerge(_, _)
deepMerge(a, b) ==
    [key \in DOMAIN a \cup DOMAIN b |->
        IF key \in DOMAIN b
        THEN IF /\ Truthy(b[key])
                /\ IsObj(b[key])
                /\ key \in DOMAIN a
                /\ IsObj(a[key])
             THEN Obj(deepMerge(a[key].obj, b[key].obj))
             ELSE b[key]
        ELSE a[key]]

---------------------------------------------------------------------------
(* mapVapiEvent of the buffering relay: part_000 lines 199-324. *)

\* out.name.toLowerCase().includes("success evaluation"), on the names of the model.
IncludesSuccessEvaluation(name) ==
    name \in {"Success Evaluation - Descriptive", "success evaluation"}

\* String.prototype.trim, on the strings of the model.
Trim(s) == CASE s = " Excellent " -> "Excellent"
             [] s = " " -> ""
             [] OTHER -> s

\* labelToScore: part_000 lines 297-303.
labelToScore == [Excellent |-> "70", Fair |-> "50", invalid |-> "0"]
                    @@ ("Invalid/unreachable" :> "0")
                    @@ ("Invalid_or_unreachable" :> "0")

\* The label one structured output yields (lines 280-290), undefined when none.
OutputLabel(out) ==
    IF Truthy(out) /\ IsString(Get(out, "name"))
                   /\ IncludesSuccessEvaluation(Get(out, "name").leaf)
    THEN LET res == Get(out, "result") IN
         IF IsString(res) THEN Leaf(Trim(res.leaf))
         ELSE IF Truthy(res) /\ IsString(Get(res, "label"))
              THEN Leaf(Trim(Get(res, "label").leaf))
              ELSE Undefined
    ELSE Undefined

\* leadLabel after the loop over Object.values(structuredOutputs), lines 277-293.
\* The bodies of the model hold at most one output that yields a label, so the
\* order of the loop does not show.
LeadLabel(structuredOutputs) ==
    IF Truthy(structuredOutputs) /\ IsObj(structuredOutputs)
    THEN LET labels == { OutputLabel(structuredOutputs.obj[k]) :
                             k \in DOMAIN structuredOutputs.obj } \ {Undefined}
         IN IF labels = {} THEN Undefined ELSE CHOOSE l \in labels : TRUE
    ELSE Undefined

\* const call = {} and the assignments of lines 218-231.
MapCall(msg, callObj) ==
    LET startedAt == Or(Get(msg, "startedAt"), Get(callObj, "startedAt"))
        endedAt   == Or(Get(msg, "endedAt"), Get(callObj, "endedAt"))
        c1 == PutIf(Truthy(Get(callObj, "id")), EmptyFields, "id", Get(callObj, "id"))
        c2 == PutIf(Truthy(startedAt), c1, "startedAt", startedAt)
        c3 == PutIf(Truthy(endedAt), c2, "endedAt", endedAt)
        c4 == PutIf(Truthy(Get(msg, "endedReason")), c3, "endedReason",
                    Get(msg, "endedReason"))
        c5 == PutIf(~IsUndefined(Get(msg, "durationSeconds")), c4, "durationSeconds",
                    Get(msg, "durationSeconds"))
        c6 == PutIf(~IsUndefined(Get(msg, "durationMinutes")), c5, "durationMinutes",
                    Get(msg, "durationMinutes"))
        c7 == PutIf(~IsUndefined(Get(msg, "durationMs")), c6, "durationMs",
                    Get(msg, "durationMs"))
    IN  IF ~IsUndefined(Get(msg, "cost")) THEN Put(c7, "cost", Get(msg, "cost"))
        ELSE PutIf(~IsUndefined(Get(callObj, "cost")), c7, "cost", Get(callObj, "cost"))

\* const customer = {} and the assignments of lines 233-238.
MapCustomer(customerObj) ==
    LET number == Or(Or(Get(customerObj, "number"), Get(customerObj, "phone")),
                     Get(customerObj, "phoneNumber"))
        c1 == PutIf(Truthy(number), EmptyFields, "number", number)
        c2 == PutIf(Truthy(Get(customerObj, "name")), c1, "name",
                    Get(customerObj, "name"))
    IN  PutIf(Truthy(Get(customerObj, "metadata")), c2, "metadata",
              Get(customerObj, "metadata"))

\* const analysis = {} and the assignments of lines 240-254.
MapAnalysis(msg, analysisObj) ==
    LET summary == Or(Get(analysisObj, "summary"), Get(msg, "summary"))
        a1 == PutIf(Truthy(summary), EmptyFields, "summary", summary)
        a2 == PutIf(\/ ~IsUndefined(Get(analysisObj, "successEvaluation"))
                    \/ ~IsUndefined(Get(msg, "successEvaluation")),
                    a1, "successEvaluation",
                    IF ~IsUndefined(Get(analysisObj, "successEvaluation"))
                    THEN Get(analysisObj, "successEvaluation")
                    ELSE Get(msg, "successEvaluation"))
    IN  PutIf(~IsUndefined(Get(analysisObj, "score")), a2, "score",
              Get(analysisObj, "score"))

\* Mutant: the mapper keeps a module-level flag that its first call sets, and
\* marks the records of its later calls.
mapVapiEventRemembers(body) ==
    LET msg == Or(Or(Get(body, "message"), body), Obj(EmptyFields))
        eventType == Or(Or(Get(msg, "type"), Get(body, "type")), Leaf("unknown"))
        callObj == Or(Or(Get(msg, "call"), Get(Get(msg, "artifact"), "call")),
                      Obj(EmptyFields))
        customerObj == Or(Get(msg, "customer"), Obj(EmptyFields))
        analysisObj == Or(Get(msg, "analysis"), Obj(EmptyFields))
    IN  [eventType |-> eventType,
         call |-> Obj(MapCall(msg, callObj)),
         customer |-> Obj(MapCustomer(customerObj)),
         analysis |-> Obj(MapAnalysis(msg, analysisObj)),
         rawEventType |-> IF nEvents = 0 THEN eventType ELSE Leaf("later")]

mapVapiEvent(body) ==
    LET msg == Or(Or(Get(body, "message"), body), Obj(EmptyFields))
        eventType == Or(Or(Get(msg, "type"), Get(body, "type")), Leaf("unknown"))
        callObj == Or(Or(Get(msg, "call"), Get(Get(msg, "artifact"), "call")),
                      Obj(EmptyFields))
        customerObj == Or(Or(Or(Get(msg, "customer"),
                                Get(Get(msg, "variables"), "customer")),
                             Get(Get(msg, "variableValues"), "customer")),
                          Obj(EmptyFields))
        analysisObj == Or(Get(msg, "analysis"), Obj(EmptyFields))
        structuredOutputs == Or(Or(Get(msg, "structuredOutputs"),
                                   Get(Get(msg, "artifact"), "structuredOutputs")),
                                Null)
        scorecards == Or(Get(msg, "scorecards"), Null)
        k0 == [eventType |-> eventType,
               call |-> Obj(MapCall(msg, callObj)),
               customer |-> Obj(MapCustomer(customerObj)),
               analysis |-> Obj(MapAnalysis(msg, analysisObj)),
               rawEventType |-> eventType]
        k1 == PutIf(Truthy(structuredOutputs), k0, "structuredOutputs", structuredOutputs)
        k2 == PutIf(Truthy(Get(msg, "transcript")), k1, "transcript",
                    Get(msg, "transcript"))
        k3 == PutIf(Truthy(Get(msg, "recordingUrl")), k2, "recordingUrl",
                    Get(msg, "recordingUrl"))
        k4 == PutIf(Truthy(Get(msg, "stereoRecordingUrl")), k3, "stereoRecordingUrl",
                    Get(msg, "stereoRecordingUrl"))
        k5 == PutIf(Truthy(scorecards), k4, "scorecards", scorecards)
        leadLabel == LeadLabel(structuredOutputs)
        hasScore == Truthy(leadLabel) /\ leadLabel.leaf \in DOMAIN labelToScore
        lead0 == [label |-> leadLabel]
        lead == PutIf(hasScore, lead0, "score",
                      IF hasScore THEN Leaf(labelToScore[leadLabel.leaf]) ELSE Undefined)
        k6 == PutIf(Truthy(leadLabel), k5, "lead", Obj(lead))
    IN  IF hasScore
        THEN Put(k6, "analysis",
                 Obj(Put(k6["analysis"].obj, "score", Leaf(labelToScore[leadLabel.leaf]))))
        ELSE k6

---------------------------------------------------------------------------
(* The inbound requests of the model. *)

\* The call ids Vapi assigns.
CallIds == {"c1", "c2"}

\* The key handleVapiEvent uses for an event without call id (part_000:358).
UnknownCallId == "unknown-call-id"

\* Every key callBuffer can hold.
CallKeys == CallIds \cup {UnknownCallId}

NoId == "none"

EndOfCallReport == "end-of-call-report"

StatusUpdate == "status-update"

\* The fields a message carries besides its type and its call.
Contents ==
    { [customer |-> Obj([number |-> Leaf("+15550000000")])],
      [analysis |-> Obj([summary |-> Leaf("ok")])],
      [durationSeconds |-> Leaf("42")],
      [durationSeconds |-> Null] }

\* { message: { type, call: { id }, ...content } }; a type or an id of NoId is absent.
Body(type, id, content) ==
    LET m1 == PutIf(type # NoId, content, "type", Leaf(type))
        m2 == PutIf(id # NoId, m1, "call", Obj([id |-> Leaf(id)]))
    IN  Obj([message |-> Obj(m2)])

\* A first call with every type and content, a second call and a caller
\* without call id with a status-update and a report each.
Bodies ==
    { Body(t, "c1", c) : t \in {StatusUpdate, EndOfCallReport}, c \in Contents }
    \cup { Body(NoId, "c1", [transcript |-> Leaf("hello")]) }
    \cup { Body(StatusUpdate, i, [customer |-> Obj([number |-> Leaf("+15551234567")])]) :
               i \in {"c2", NoId} }
    \cup { Body(EndOfCallReport, i, [analysis |-> Obj([summary |-> Leaf("done")])]) :
               i \in {"c2", NoId} }

\* The call id the request itself carries, NoId when it carries none.
BodyCallId(body) ==
    LET id == At(body, <<"message", "call", "id">>)
    IN  IF Truthy(id) THEN id.leaf ELSE NoId

---------------------------------------------------------------------------
(* handleVapiEvent and the fallback timer: part_000 lines 357-395. *)

\* How long to wait before sending a partial event (part_000:168).
FALLBACK_TIMEOUT_MS == 60000

\* One step of the clock: half a fallback window.
TickMs == FALLBACK_TIMEOUT_MS \div 2

\* Ages are counted up to this value and no further.
AgeCap == 2 * FALLBACK_TIMEOUT_MS

\* Mutant: every event is filed under the same key.
CallIdIgnored(cleaned) == UnknownCallId

\* const callId = cleaned.call?.id || "unknown-call-id" (line 358).
CallIdOf(cleaned) ==
    LET id == Or(Get(Get(Obj(cleaned), "call"), "id"), Leaf(UnknownCallId))
    IN  id.leaf

\* Mutant: the ingest does not see what earlier ingests wrote.
ExistingStale(buf, callId) == [data |-> EmptyFields, timeoutId |-> 0]

\* callBuffer.get(callId) || { data: {}, timeoutId: null } (line 361).
Existing(buf, callId) ==
    IF callId \in DOMAIN buf THEN buf[callId]
    ELSE [data |-> EmptyFields, timeoutId |-> 0]

\* Mutant: the last event replaces the buffered record wholesale.
MergedDataLastEventWins(existing, cleaned) == cleaned

\* Mutant: a field keeps the value of the first event that supplied it.
MergedDataFirstEventWins(existing, cleaned) == deepMerge(cleaned, existing.data)

\* Mutant: the transcript of an event is appended to the buffered transcript.
MergedDataAppendsTranscript(existing, cleaned) ==
    LET m == deepMerge(existing.data, cleaned)
    IN  IF "transcript" \in DOMAIN existing.data /\ "transcript" \in DOMAIN cleaned
        THEN Put(m, "transcript",
                 Leaf(existing.data["transcript"].leaf \o cleaned["transcript"].leaf))
        ELSE m

\* const mergedData = deepMerge(existing.data, cleaned) (line 362).
MergedData(existing, cleaned) == deepMerge(existing.data, cleaned)

\* Mutant: the entry is left in the buffer.
BufferDeleteKeeps(buf, callId) == buf

\* callBuffer.delete(callId) (lines 373 and 386).
BufferDelete(buf, callId) == [k \in DOMAIN buf \ {callId} |-> buf[k]]

\* callBuffer.set(callId, entry) (line 394).
BufferSet(buf, callId, entry) ==
    [k \in DOMAIN buf \cup {callId} |-> IF k = callId THEN entry ELSE buf[k]]

\* Mutant: the pending timer is left to fire.
ClearTimeoutKeeps(ts, timeoutId) == ts

\* clearTimeout(timeoutId) (line 370).
ClearTimeout(ts, timeoutId) == { t \in ts : t.id # timeoutId }

\* Mutant: every non-final event schedules a new timer.
NeedsTimerAlways(timeoutId) == TRUE

\* if (!timeoutId): a timer is scheduled only when the entry has none (line 381).
NeedsTimer(timeoutId) == timeoutId = 0

\* Mutant: the callback is registered with twice the delay.
SetTimeoutLate(ts, id, callId) ==
    ts \cup {[id |-> id, callId |-> callId, remaining |-> 2 * FALLBACK_TIMEOUT_MS]}

\* Mutant: the callback is never registered.
SetTimeoutLost(ts, id, callId) == ts

\* setTimeout(callback, FALLBACK_TIMEOUT_MS) with callId in the closure (line 382).
SetTimeout(ts, id, callId) ==
    ts \cup {[id |-> id, callId |-> callId, remaining |-> FALLBACK_TIMEOUT_MS]}

\* One call of sendToZapier(payload) (lines 375 and 390), with what is known of the
\* entry it flushes: its instance (0 when no entry existed), the events folded
\* into it and its ages.
Delivery(callId, payload, path, g) ==
    [callId |-> callId, payload |-> payload, path |-> path, inst |-> g.inst,
     events |-> g.events, sinceFirst |-> g.sinceFirst, sinceLast |-> g.sinceLast]

\* Mutant: the POST is made whether or not the URL is set.
sendToZapierAlways(url) == [state |-> "pending", attempts |-> 1]

\* sendToZapier up to its await (lines 329-344): without ZAPIER_HOOK_URL it warns
\* and returns, otherwise it starts one POST and waits for it.
sendToZapier(url) ==
    IF ~url THEN [state |-> "skipped", attempts |-> 0]
    ELSE [state |-> "pending", attempts |-> 1]

\* Mutant: a rejected POST is made again.
FetchSettledRetries(post, outcome) ==
    IF outcome = "rejected"
    THEN [state |-> "pending", attempts |-> post.attempts + 1]
    ELSE [post EXCEPT !.state = outcome]

\* await fetch(...) returns or throws (lines 340-348): nothing is tried again.
FetchSettled(post, outcome) == [post EXCEPT !.state = outcome]

\* Mutant: the response reports whether the record could be posted.
AcknowledgeByOutcome(delivery, post) ==
    [status |-> IF post.state = "skipped" THEN 500 ELSE 200,
     delivery |-> delivery, postAtAck |-> post.state]

\* res.status(200).json({ ok: true }) (line 410), with the sendToZapier call this
\* request made (0 when none) and the state of its POST when the response is sent.
Acknowledge(delivery, post) ==
    [status |-> 200, delivery |-> delivery, postAtAck |-> post.state]

\* Whether a rejection of sendToZapier reaches a handler: handleVapiEvent's
\* promise has the .catch of the route (lines 405-407), the promise of the
\* timer's async callback (lines 382-391) has none.
Caught(path) == path = "report"

NoGhost == [inst |-> 0, events |-> << >>, sinceFirst |-> 0, sinceLast |-> 0]

GhostOf(callId) == IF callId \in DOMAIN ghost THEN ghost[callId] ELSE NoGhost

\* The ghost of the entry once the event is folded into it.
GhostAfter(g, ev) == [g EXCEPT !.events = Append(@, ev), !.sinceLast = 0]

\* if (eventType === "end-of-call-report") { ... } (lines 368-377), up to the await.
FlushOnReport(callId, existing, mergedData, g) ==
    /\ timers' = IF existing.timeoutId # 0
                 THEN ClearTimeout(timers, existing.timeoutId)
                 ELSE timers
    /\ callBuffer' = BufferDelete(callBuffer, callId)
    /\ deliveries' = Append(deliveries, Delivery(callId, mergedData, "report", g))
    /\ posts' = Append(posts, sendToZapier(zapierUrl))
    /\ ghost' = [k \in DOMAIN callBuffer' |-> ghost[k]]
    /\ UNCHANGED <<nextTimeoutId, nextInst>>
    /\ last' = [op |-> "report", callId |-> callId]

\* The non-final branch (lines 379-394): schedule the fallback when the entry has
\* no timer, then store the merged snapshot.
BufferNonFinal(callId, existing, mergedData, g, fresh, isNew) ==
    /\ timers' = IF fresh THEN SetTimeout(timers, nextTimeoutId, callId) ELSE timers
    /\ nextTimeoutId' = IF fresh THEN nextTimeoutId + 1 ELSE nextTimeoutId
    /\ callBuffer' = BufferSet(callBuffer, callId,
                         [data |-> mergedData,
                          timeoutId |-> IF fresh THEN nextTimeoutId
                                        ELSE existing.timeoutId])
    /\ ghost' = [k \in DOMAIN ghost \cup {callId} |->
                     IF k # callId THEN ghost[k]
                     ELSE IF isNew THEN [g EXCEPT !.inst = nextInst] ELSE g]
    /\ nextInst' = IF isNew THEN nextInst + 1 ELSE nextInst
    /\ UNCHANGED <<deliveries, posts>>
    /\ last' = [op |-> "buffer", callId |-> callId]

\* Mutant: no event is taken for the final report.
IsFinalReportNever(cleaned) == FALSE

\* eventType === "end-of-call-report", eventType being cleaned.eventType
\* (lines 359 and 368).
IsFinalReport(cleaned) == cleaned["eventType"].leaf = EndOfCallReport

\* The body of handleVapiEvent once callId and existing are read (lines 361-395).
HandleExisting(cleaned, callId, existing, g) ==
    IF IsFinalReport(cleaned)
    THEN FlushOnReport(callId, existing, MergedData(existing, cleaned), g)
    ELSE BufferNonFinal(callId, existing, MergedData(existing, cleaned), g,
                        NeedsTimer(existing.timeoutId),
                        callId \notin DOMAIN callBuffer)

\* handleVapiEvent(cleaned), up to its first await (lines 357-395).  ev is the
\* event as the ghost keeps it.
HandleWithId(cleaned, callId, ev) ==
    HandleExisting(cleaned, callId, Existing(callBuffer, callId),
                   GhostAfter(GhostOf(callId), ev))

handleVapiEvent(cleaned, src, body) ==
    HandleWithId(cleaned, CallIdOf(cleaned),
                 [src |-> src, cleaned |-> cleaned, body |-> body])

\* mapVapiEvent on the requests of the model, computed once.
CleanedOf == [b \in Bodies |-> mapVapiEvent(b)]

\* app.post("/vapi-hook") up to its response (lines 398-415): mapVapiEvent, then
\* handleVapiEvent up to its first await.
PostVapiHook(body) ==
    /\ nEvents < MaxEvents
    /\ handleVapiEvent(CleanedOf[body], BodyCallId(body), body)
    /\ acks' = Append(acks,
                  IF Len(posts') > Len(posts)
                  THEN Acknowledge(Len(posts'), posts'[Len(posts')])
                  ELSE Acknowledge(0, [state |-> "none", attempts |-> 0]))
    /\ seen' = seen \cup {BodyCallId(body)}
    /\ nEvents' = nEvents + 1
    /\ UNCHANGED <<zapierUrl, errors, relayVars, enrichVars, sentVars, procVars, scoreVars>>

\* Mutant: the callback sends the record as it was when the timer was created.
FallbackPayloadAtSchedule(buf, callId) == ghost[callId].events[1].cleaned

\* const buffered = callBuffer.get(callId); ... sendToZapier(buffered.data)
\* (lines 383-390): the entry is read when the callback runs.
FallbackPayload(buf, callId) == buf[callId].data

\* The callback of setTimeout (lines 382-391), up to its await.
FallbackTimeout(t) ==
    /\ t \in timers
    /\ t.remaining = 0
    /\ timers' = timers \ {t}
    /\ IF t.callId \notin DOMAIN callBuffer
       THEN UNCHANGED <<callBuffer, deliveries, ghost, posts>>
       ELSE /\ callBuffer' = BufferDelete(callBuffer, t.callId)
            /\ deliveries' = Append(deliveries,
                   Delivery(t.callId, FallbackPayload(callBuffer, t.callId),
                            "fallback", GhostOf(t.callId)))
            /\ posts' = Append(posts, sendToZapier(zapierUrl))
            /\ ghost' = [k \in DOMAIN callBuffer' |-> ghost[k]]
    /\ last' = [op |-> "fallback", callId |-> t.callId]
    /\ UNCHANGED <<nextTimeoutId, nextInst, seen, nEvents, zapierUrl, acks, errors,
                   relayVars, enrichVars, sentVars, procVars, scoreVars>>

\* Time passes by TickMs.  A timer that is due runs before the clock moves on.
Tick ==
    /\ timers # {} \/ DOMAIN callBuffer # {}
    /\ \A t \in timers : t.remaining > 0
    /\ timers' = { [t EXCEPT !.remaining = @ - TickMs] : t \in timers }
    /\ ghost' = [k \in DOMAIN ghost |->
                    [ghost[k] EXCEPT
                        !.sinceFirst = IF @ + TickMs > AgeCap THEN AgeCap ELSE @ + TickMs,
                        !.sinceLast  = IF @ + TickMs > AgeCap THEN AgeCap ELSE @ + TickMs]]
    /\ last' = [op |-> "tick", callId |-> NoId]
    /\ UNCHANGED <<callBuffer, nextTimeoutId, deliveries, nextInst, seen, nEvents,
                   zapierUrl, posts, acks, errors, relayVars, enrichVars, sentVars,
                   procVars, scoreVars>>

\* The POST of the i-th call of sendToZapier ends (lines 340-348): fetch returns
\* a response, whatever its status, or throws.  A throw rejects the promise of
\* sendToZapier and with it the promise of its caller.
FetchReturns(i, outcome) ==
    /\ i \in DOMAIN posts
    /\ posts[i].state = "pending"
    /\ posts' = [posts EXCEPT ![i] = FetchSettled(@, outcome)]
    /\ errors' = IF outcome = "rejected"
                 THEN Append(errors, [delivery |-> i,
                                      caught |-> Caught(deliveries[i].path)])
                 ELSE errors
    /\ last' = [op |-> "settle", callId |-> deliveries[i].callId]
    /\ UNCHANGED <<callBuffer, timers, nextTimeoutId, deliveries, ghost, nextInst,
                   seen, nEvents, zapierUrl, acks, relayVars,
                   enrichVars, sentVars, procVars, scoreVars>>

\* The buffering relay after start-up, whatever its configuration.
BufStart ==
    /\ callBuffer = << >>
    /\ timers = {}
    /\ nextTimeoutId = 1
    /\ deliveries = << >>
    /\ ghost = << >>
    /\ nextInst = 1
    /\ seen = {}
    /\ nEvents = 0
    /\ last = [op |-> "init", callId |-> NoId]
    /\ posts = << >>
    /\ acks = << >>
    /\ errors = << >>

\* The buffering relay after start-up, with its delivery URL configured.
BufInit == BufStart /\ zapierUrl = TRUE

\* The final-event relay is not part of this program: it holds no request.
RelayIdle ==
    /\ relayEnv = [ZAPIER_HOOK_URL |-> FALSE, ABSTRACT_PHONE_API_KEY |-> FALSE]
    /\ relayReqs = << >>

\* The enriching relay is not part of this program: it holds no request.
EnrichIdle ==
    /\ enrichEnv = [ZAPIER_HOOK_URL |-> FALSE, ABSTRACT_API_KEY |-> FALSE]
    /\ enrichReqs = << >>

\* The sentCalls relay is not part of this program: it holds no request.
SentIdle ==
    /\ sentCalls = {}
    /\ sentReqs = << >>

\* The processedCalls relay is not part of this program: it holds no request.
ProcIdle ==
    /\ processedCalls = {}
    /\ procEnv = [ZAPIER_HOOK_URL |-> FALSE, ABSTRACT_PHONE_API_KEY |-> FALSE]
    /\ procReqs = << >>

\* No call of computeIdentityScore is followed on its own.
ScoreIdle ==
    /\ scoreArgs = [call |-> Obj(EmptyFields), successLabel |-> Null]
    /\ scoreResult = [state |-> "none", value |-> Null]

\* The relays that are separate programs hold nothing.
OthersIdle == RelayIdle /\ EnrichIdle /\ SentIdle /\ ProcIdle /\ ScoreIdle

Init == BufInit /\ OthersIdle

Next ==
    \/ \E body \in Bodies : PostVapiHook(body)
    \/ \E t \in timers : FallbackTimeout(t)
    \/ Tick

Spec == Init /\ [][Next]_vars

\* Node runs a due timer callback, and time passes.
FairSpec == Spec /\ WF_vars(Tick) /\ WF_vars(\E t \in timers : FallbackTimeout(t))

\* The requests of the specification that follows each POST to its end: what
\* happens to a POST does not depend on what the record holds.
SendBodies ==
    { Body(t, "c1", [customer |-> Obj([number |-> Leaf("+15550000000")])]) :
          t \in {StatusUpdate, EndOfCallReport} }
    \cup { Body(StatusUpdate, "c2", [customer |-> Obj([number |-> Leaf("+15551234567")])]) }

\* How a POST can end: fetch returns a response or throws.
FetchOutcomes == {"ok", "rejected"}

\* The buffering relay with or without its delivery URL.
SendInit == BufStart /\ zapierUrl \in BOOLEAN /\ OthersIdle

SendNext ==
    \/ \E body \in SendBodies : PostVapiHook(body)
    \/ \E t \in timers : FallbackTimeout(t)
    \/ Tick
    \/ \E i \in DOMAIN posts : \E outcome \in FetchOutcomes : FetchReturns(i, outcome)

\* The buffering relay with each POST followed to its end.  Spec starts the
\* same POSTs and leaves them pending.
SendSpec == SendInit /\ [][SendNext]_vars

---------------------------------------------------------------------------
(* Properties of the buffering relay. *)

\* The fold, in arrival order, of the normalised records of a list of events.
RECURSIVE Fold(_)
Fold(evs) ==
    IF evs = << >> THEN EmptyFields
    ELSE deepMerge(Fold(SubSeq(evs, 1, Len(evs) - 1)), evs[Len(evs)].cleaned)

\* The deliveries attempted for a call key.
DeliveriesOf(callId) == { i \in DOMAIN deliveries : deliveries[i].callId = callId }

\* The scalar fields of the merged record the properties look at.
FieldPaths ==
    { <<"eventType">>, <<"call", "id">>, <<"call", "durationSeconds">>,
      <<"customer", "number">>, <<"analysis", "summary">>, <<"transcript">> }

\* A value that is neither absent, null nor the empty string.
Populated(v) == IF IsObj(v) THEN TRUE ELSE v.leaf \notin {"undefined", "null", ""}

\* The call id the events filed under a key carry.
SrcOf(callId) == IF callId = UnknownCallId THEN NoId ELSE callId

\* C1: for the events of one call id, exactly one delivery is attempted: once
\* the call has been seen and holds no buffered entry, sendToZapier was called
\* exactly once for it.
C1_ExactlyOneDeliveryPerCall ==
    \A id \in CallIds :
        (id \in seen /\ id \notin DOMAIN callBuffer)
            => Cardinality(DeliveriesOf(id)) = 1

\* C2: of the end-of-call-reports of one call id only the first triggers a
\* delivery: at most one delivery of a call id is triggered by a report.
C2_DuplicateReportIsNoOp ==
    \A id \in CallIds :
        Cardinality({ i \in DeliveriesOf(id) : deliveries[i].path = "report" }) <= 1

\* C3: at most one delivery is initiated per callBuffer entry: no two deliveries
\* flush the same entry instance, a flushed instance is no longer in callBuffer,
\* and right after a step that calls sendToZapier the entry of that call is gone.
C3_AtMostOneDeliveryPerEntry ==
    /\ \A i, j \in DOMAIN deliveries :
          (deliveries[i].inst # 0 /\ deliveries[i].inst = deliveries[j].inst) => i = j
    /\ \A i \in DOMAIN deliveries : \A k \in DOMAIN ghost :
          deliveries[i].inst # 0 => ghost[k].inst # deliveries[i].inst
    /\ last.op \in {"report", "fallback"} => last.callId \notin DOMAIN callBuffer

\* C3 witness: one entry was flushed by the fallback timer and another by a report.
C3_Witness ==
    \E i, j \in DOMAIN deliveries :
        /\ deliveries[i].path = "fallback" /\ deliveries[i].inst # 0
        /\ deliveries[j].path = "report" /\ deliveries[j].inst # 0

\* The merge of event b into record a gave m, field by field: a populated field
\* of a survives an empty field of b, and a populated field of b is taken.
MonotoneStep(a, b, m) ==
    \A p \in FieldPaths :
        /\ (Populated(At(Obj(a), p)) /\ ~Populated(At(Obj(b), p)))
               => At(Obj(m), p) = At(Obj(a), p)
        /\ Populated(At(Obj(b), p)) => At(Obj(m), p) = At(Obj(b), p)

\* C4: the merged record is filled in monotonically: the last ingest of every
\* buffered call kept each populated field its event left empty, and took each
\* field its event populated.
C4_MergeIsMonotone ==
    \A k \in DOMAIN callBuffer :
        LET evs == ghost[k].events
            n == Len(evs)
        IN  n >= 2 => MonotoneStep(Fold(SubSeq(evs, 1, n - 1)), evs[n].cleaned,
                                   callBuffer[k].data)

\* The entry of a key, as a sequence of at most one element.
EntryOf(buf, k) == IF k \in DOMAIN buf THEN <<buf[k]>> ELSE << >>

\* Every buffered record and every delivered payload is the fold of events that
\* carried the call id of its key, and of no other event.
OwnEventsOnly ==
    /\ \A k \in DOMAIN callBuffer :
          /\ \A n \in DOMAIN ghost[k].events : ghost[k].events[n].src = SrcOf(k)
          /\ callBuffer[k].data = Fold(ghost[k].events)
    /\ \A i \in DOMAIN deliveries :
          /\ \A n \in DOMAIN deliveries[i].events :
                deliveries[i].events[n].src = SrcOf(deliveries[i].callId)
          /\ deliveries[i].payload = Fold(deliveries[i].events)

\* C5: calls do not contaminate each other: an ingest or a flush of one call
\* leaves the entry and the timers of every other call unchanged, and every
\* buffered record and delivered payload is built from its own call's events.
C5_NoCrossContamination ==
    /\ []OwnEventsOnly
    /\ [][ \A k \in CallKeys :
              (last'.op \in {"report", "buffer", "fallback"} /\ k # last'.callId)
                  => /\ EntryOf(callBuffer', k) = EntryOf(callBuffer, k)
                     /\ { t \in timers' : t.callId = k }
                            = { t \in timers : t.callId = k } ]_vars

\* C5 witness: events of two call ids are buffered at once, the second call's
\* event having arrived after the first call's.
C5_Witness ==
    /\ {"c1", "c2"} \subseteq DOMAIN callBuffer
    /\ last.op = "buffer"
    /\ Len(ghost["c1"].events) >= 2

C7_BufferedCallIsEventuallyFlushed ==
    /\ []<>(DOMAIN callBuffer = {})
    /\ [](\A n \in 1..(nextInst - 1) :
             \/ \E k \in DOMAIN ghost : ghost[k].inst = n
             \/ \E i \in DOMAIN deliveries : deliveries[i].inst = n)

\* C7 witness: a call that never got an end-of-call-report was delivered by the
\* fallback timer and its entry is gone.
C7_Witness ==
    \E i \in DOMAIN deliveries :
        /\ deliveries[i].path = "fallback"
        /\ deliveries[i].callId \notin DOMAIN callBuffer
        /\ \A n \in DOMAIN deliveries[i].events :
              deliveries[i].events[n].cleaned["eventType"].leaf # EndOfCallReport

\* C8: an event without call id is never aggregated: no entry and no timer is
\* kept for it, and what is delivered for it is a single-event record.
C8_NoCallIdIsNeverAggregated ==
    /\ UnknownCallId \notin DOMAIN callBuffer
    /\ \A t \in timers : t.callId # UnknownCallId
    /\ \A i \in DeliveriesOf(UnknownCallId) : Len(deliveries[i].events) = 1

\* C9: the payload a report delivers is the fold, in arrival order, of the events
\* buffered for the call since its entry was created, followed by the report,
\* and it is delivered in the step that ingests the report.
C9_ReportDeliversFoldOfBuffered ==
    \A i \in DOMAIN deliveries :
        deliveries[i].path = "report" =>
            LET evs == deliveries[i].events
                n == Len(evs)
            IN  /\ n >= 1
                /\ evs[n].cleaned["eventType"].leaf = EndOfCallReport
                /\ \A m \in 1..(n - 1) :
                      evs[m].cleaned["eventType"].leaf # EndOfCallReport
                /\ deliveries[i].payload = Fold(evs)
                /\ deliveries[i].sinceLast = 0

\* C9 witness: one delivered record holds customer.number, which only the
\* earlier status-update carried, and analysis.summary, which only the report
\* carried.
C9_Witness ==
    \E i \in DOMAIN deliveries :
        LET d == deliveries[i] IN
        /\ d.path = "report"
        /\ Len(d.events) = 2
        /\ Populated(At(Obj(d.events[1].cleaned), <<"customer", "number">>))
        /\ ~Populated(At(Obj(d.events[2].cleaned), <<"customer", "number">>))
        /\ ~Populated(At(Obj(d.events[1].cleaned), <<"analysis", "summary">>))
        /\ Populated(At(Obj(d.events[2].cleaned), <<"analysis", "summary">>))
        /\ At(Obj(d.payload), <<"customer", "number">>)
               = At(Obj(d.events[1].cleaned), <<"customer", "number">>)
        /\ At(Obj(d.payload), <<"analysis", "summary">>)
               = At(Obj(d.events[2].cleaned), <<"analysis", "summary">>)


\* The record buffered for a key, empty when the key has no entry.
DataOf(buf, k) == IF k \in DOMAIN buf THEN buf[k].data ELSE EmptyFields

\* The events folded so far into the entry of a key.
EventsOf(gh, k) == IF k \in DOMAIN gh THEN gh[k].events ELSE << >>

\* C19: no update is lost: each ingest merges its event into the record the
\* previous ingest of the same call id left in callBuffer, in the order in which
\* handleVapiEvent is invoked, and writes the result back (or delivers it and
\* removes the entry) in the same step.
C19_NoLostUpdate ==
    [][ \A k \in CallKeys :
          /\ (last'.op = "buffer" /\ last'.callId = k) =>
                LET evs == ghost'[k].events IN
                /\ evs = Append(EventsOf(ghost, k), evs[Len(evs)])
                /\ callBuffer'[k].data
                       = deepMerge(DataOf(callBuffer, k), evs[Len(evs)].cleaned)
          /\ (last'.op = "report" /\ last'.callId = k) =>
                LET d == deliveries'[Len(deliveries')] IN
                /\ Len(deliveries') = Len(deliveries) + 1
                /\ d.events = Append(EventsOf(ghost, k), d.events[Len(d.events)])
                /\ d.payload = deepMerge(DataOf(callBuffer, k),
                                         d.events[Len(d.events)].cleaned)
                /\ k \notin DOMAIN callBuffer' ]_vars

\* C19 witness: a second event of a call was just merged into the record the
\* first one left, and the record holds more than the second event alone.
C19_Witness ==
    /\ last.op = "buffer"
    /\ last.callId \in DOMAIN callBuffer
    /\ Len(ghost[last.callId].events) >= 2
    /\ callBuffer[last.callId].data
           # ghost[last.callId].events[Len(ghost[last.callId].events)].cleaned

\* The pending timers of a call key.
TimersOf(k) == { t \in timers : t.callId = k }

\* C20: each call id has at most one entry in callBuffer and at most one pending
\* fallback timer: a pending timer belongs to a buffered call and is the one
\* its entry names, and no call has two.
C20_OneEntryOneTimerPerCall ==
    \A k \in CallKeys :
        /\ Cardinality(TimersOf(k)) <= 1
        /\ \A t \in TimersOf(k) :
              k \in DOMAIN callBuffer /\ callBuffer[k].timeoutId = t.id
        /\ k \in DOMAIN callBuffer => Cardinality(TimersOf(k)) = 1

\* C20 witness: an accumulating call ingested further non-terminal events and
\* has its one timer pending.
C20_Witness ==
    \E k \in DOMAIN callBuffer :
        /\ Len(ghost[k].events) >= 3
        /\ Cardinality(TimersOf(k)) = 1

\* C21: a fallback timer is pending for a call id exactly when callBuffer holds
\* an entry for it, and the step that takes an entry out of the buffer leaves
\* no timer of that entry or that call pending.
C21_TimerPendingIffAccumulating ==
    /\ [](\A k \in CallKeys : (TimersOf(k) # {}) <=> (k \in DOMAIN callBuffer))
    /\ [][\A k \in DOMAIN callBuffer :
              k \notin DOMAIN callBuffer'
                  => \A t \in timers' :
                         t.id # callBuffer[k].timeoutId /\ t.callId # k]_vars

\* C21 witness: a report has just flushed an accumulating call, whose timer is
\* gone, while another call is still accumulating with its timer pending.
C21_Witness ==
    /\ last.op = "report"
    /\ deliveries[Len(deliveries)].inst # 0
    /\ TimersOf(last.callId) = {}
    /\ last.callId \notin DOMAIN callBuffer
    /\ \E k \in DOMAIN callBuffer : k # last.callId /\ TimersOf(k) # {}

\* C22: after a flush, further events for the call id are a fresh call.  An
\* entry buffered for a key that was flushed before is another entry than any
\* flushed one, every populated field of its record was supplied by an event
\* that arrived after the flush, and the step that creates an entry stores the
\* record of that one event alone.
C22_PostFlushStartsFresh ==
    /\ [](\A k \in DOMAIN callBuffer :
             /\ \A i \in DeliveriesOf(k) : ghost[k].inst # deliveries[i].inst
             /\ \A p \in FieldPaths :
                   Populated(At(Obj(callBuffer[k].data), p))
                       => \E n \in DOMAIN ghost[k].events :
                              At(Obj(ghost[k].events[n].cleaned), p)
                                  = At(Obj(callBuffer[k].data), p))
    /\ [][\A k \in CallKeys :
              (k \notin DOMAIN callBuffer /\ k \in DOMAIN callBuffer')
                  => /\ \E b \in Bodies : callBuffer'[k].data = CleanedOf[b]
                     /\ Len(ghost'[k].events) = 1]_vars

\* C22 witness: a call that was flushed is accumulating again, and its new
\* record lacks a field the flushed payload held.
C22_Witness ==
    \E k \in DOMAIN callBuffer : \E i \in DeliveriesOf(k) : \E p \in FieldPaths :
        /\ deliveries[i].events # << >>
        /\ Populated(At(Obj(deliveries[i].payload), p))
        /\ ~Populated(At(Obj(callBuffer[k].data), p))

\* C23: an end-of-call-report for a call id with no buffered state is
\* delivered at once and alone: the step makes exactly one call of sendToZapier,
\* whose payload is the normalised record of that one event, and it creates no
\* buffer entry and no timer.  A report is never buffered.
C23_LoneReportDeliveredAtOnce ==
    /\ [](\A i \in DOMAIN deliveries :
             deliveries[i].inst = 0
                 => /\ deliveries[i].path = "report"
                    /\ Len(deliveries[i].events) = 1
                    /\ deliveries[i].events[1].cleaned["eventType"].leaf
                           = EndOfCallReport
                    /\ deliveries[i].payload = deliveries[i].events[1].cleaned
                    /\ deliveries[i].sinceFirst = 0)
    /\ [](\A k \in DOMAIN callBuffer : \A n \in DOMAIN ghost[k].events :
             ghost[k].events[n].cleaned["eventType"].leaf # EndOfCallReport)
    /\ [][(last'.op = "report" /\ last'.callId \notin DOMAIN callBuffer)
              => /\ Len(deliveries') = Len(deliveries) + 1
                 /\ deliveries'[Len(deliveries')].callId = last'.callId
                 /\ deliveries'[Len(deliveries')].inst = 0
                 /\ callBuffer' = callBuffer
                 /\ timers' = timers
                 /\ \A t \in timers' : t.callId # last'.callId]_vars

\* C23 witness: the only event received so far is an end-of-call-report that
\* carries a customer number; it was delivered, and nothing is buffered or timed.
C23_Witness ==
    /\ nEvents = 1
    /\ last.op = "report"
    /\ Len(deliveries) = 1
    /\ deliveries[1].inst = 0
    /\ Populated(At(Obj(deliveries[1].payload), <<"customer", "number">>))
    /\ DOMAIN callBuffer = {}
    /\ timers = {}

\* C24: merging is idempotent.  A buffered record is deepMerge(a, b), b being
\* the record of the last event ingested and a what was buffered before:
\* merging b into it once more gives the same record, and ingesting the same
\* non-terminal event twice in a row for a call leaves its record as it was
\* after the first of the two.
C24_MergeIsIdempotent ==
    /\ [](\A k \in DOMAIN callBuffer :
             deepMerge(callBuffer[k].data,
                       ghost[k].events[Len(ghost[k].events)].cleaned)
                 = callBuffer[k].data)
    /\ [][\A k \in DOMAIN callBuffer \cap DOMAIN callBuffer' :
              (/\ last'.op = "buffer"
               /\ last'.callId = k
               /\ Len(ghost[k].events) >= 1
               /\ Len(ghost'[k].events) = Len(ghost[k].events) + 1
               /\ ghost'[k].events[Len(ghost'[k].events)]
                      = ghost[k].events[Len(ghost[k].events)])
                  => callBuffer'[k].data = callBuffer[k].data]_vars

\* C24 witness: the last two events buffered for a call are the same event,
\* which came after a different one and carries a nested object.
C24_Witness ==
    \E k \in DOMAIN callBuffer :
        /\ last.op = "buffer"
        /\ last.callId = k
        /\ Len(ghost[k].events) = 3
        /\ ghost[k].events[3] = ghost[k].events[2]
        /\ ghost[k].events[2] # ghost[k].events[1]
        /\ Populated(At(Obj(ghost[k].events[3].cleaned), <<"customer", "number">>))
        /\ Populated(At(Obj(callBuffer[k].data), <<"analysis", "summary">>))

\* C25: the eventType of a merged record is the type of the most recently
\* ingested event of its call: of the last buffered event for a buffered record
\* and for a fallback payload, which therefore never carries the report's type,
\* and of the report for a report payload.
C25_EventTypeIsMostRecent ==
    /\ \A k \in DOMAIN callBuffer :
          callBuffer[k].data["eventType"]
              = ghost[k].events[Len(ghost[k].events)].cleaned["eventType"]
    /\ \A i \in DOMAIN deliveries :
          /\ deliveries[i].payload["eventType"]
                 = deliveries[i].events[Len(deliveries[i].events)].cleaned["eventType"]
          /\ deliveries[i].path = "fallback"
                 => deliveries[i].payload["eventType"].leaf # EndOfCallReport
          /\ deliveries[i].path = "report"
                 => deliveries[i].payload["eventType"].leaf = EndOfCallReport

\* C25 witness: a fallback payload built from events of two different types
\* carries the type of the later one.
C25_Witness ==
    \E i \in DOMAIN deliveries :
        /\ deliveries[i].path = "fallback"
        /\ Len(deliveries[i].events) = 2
        /\ deliveries[i].events[1].cleaned["eventType"]
               # deliveries[i].events[2].cleaned["eventType"]
        /\ deliveries[i].payload["eventType"]
               = deliveries[i].events[2].cleaned["eventType"]

\* C30: the fallback delivery of a call is attempted at most one fallback
\* window after the call's first buffered event, however many status-updates
\* follow: no entry stays buffered longer than the window, an entry that has
\* been buffered for the whole window has its timer due, and no fallback
\* delivery is made later than the window after the first event.
C30_FallbackWithinOneWindowOfFirstEvent ==
    /\ \A k \in DOMAIN callBuffer :
          /\ ghost[k].sinceFirst <= FALLBACK_TIMEOUT_MS
          /\ ghost[k].sinceFirst = FALLBACK_TIMEOUT_MS
                 => \E t \in TimersOf(k) : t.remaining = 0
    /\ \A i \in DOMAIN deliveries :
          deliveries[i].path = "fallback"
              => deliveries[i].sinceFirst <= FALLBACK_TIMEOUT_MS

\* C30 witness: status-updates kept arriving for a call, the last of them when
\* the window had just ended, and the fallback delivery was made all the same
\* one window after the first.
C30_Witness ==
    \E i \in DOMAIN deliveries :
        /\ deliveries[i].path = "fallback"
        /\ Len(deliveries[i].events) = 3
        /\ \A n \in 1..3 :
              deliveries[i].events[n].cleaned["eventType"].leaf = StatusUpdate
        /\ deliveries[i].sinceLast = 0
        /\ deliveries[i].sinceFirst = FALLBACK_TIMEOUT_MS

\* Every event the relay holds a trace of: the events folded into the buffered
\* entries and into the delivered payloads.
RecordedEvents ==
    UNION { { ghost[k].events[n] : n \in DOMAIN ghost[k].events } : k \in DOMAIN ghost }
    \cup UNION { { deliveries[i].events[n] : n \in DOMAIN deliveries[i].events } :
                     i \in DOMAIN deliveries }

C31_FallbackDeliversCurrentRecord ==
    /\ [](\A i \in DOMAIN deliveries :
             deliveries[i].path = "fallback"
                 => /\ deliveries[i].events # << >>
                    /\ deliveries[i].payload = Fold(deliveries[i].events))
    /\ [][\A k \in DOMAIN callBuffer :
              (last'.op = "fallback" /\ last'.callId = k)
                  => /\ Len(deliveries') = Len(deliveries) + 1
                     /\ deliveries'[Len(deliveries')].payload = callBuffer[k].data
                     /\ deliveries'[Len(deliveries')].events = ghost[k].events]_vars

\* C31 witness: a fallback delivery of a call that received further events
\* after its timer was scheduled, whose payload holds a field the first event
\* did not supply.
C31_Witness ==
    \E i \in DOMAIN deliveries : \E p \in FieldPaths :
        /\ deliveries[i].path = "fallback"
        /\ Len(deliveries[i].events) >= 2
        /\ Populated(At(Obj(deliveries[i].payload), p))
        /\ ~Populated(At(Obj(deliveries[i].events[1].cleaned), p))

---------------------------------------------------------------------------
(* Properties of the deliveries of the buffering relay. *)

\* C11: the request is acknowledged without waiting for the delivery: every
\* request is answered 200 in the step that handles it, while the POST it
\* started, if any, is still pending, and what happens to that POST afterwards
\* never changes a response already sent.
C11_AckDoesNotWaitForDelivery ==
    /\ [](/\ Len(acks) = nEvents
          /\ \A a \in DOMAIN acks :
                /\ acks[a].status = 200
                /\ acks[a].delivery # 0 => acks[a].postAtAck \in {"pending", "skipped"})
    /\ [][\A a \in DOMAIN acks : a \in DOMAIN acks' /\ acks'[a] = acks[a]]_vars

\* C11 witness: a request was answered 200 while its POST was pending, and the
\* POST then failed.
C11_Witness ==
    \E a \in DOMAIN acks :
        /\ acks[a].status = 200
        /\ acks[a].delivery # 0
        /\ acks[a].postAtAck = "pending"
        /\ posts[acks[a].delivery].state = "rejected"

\* C12: a flush makes at most one POST, and a failed POST is final: it is not
\* made again, the step in which it fails changes neither callBuffer nor the
\* timers nor the list of deliveries, and the call it was for is left with the
\* entries and timers it would have anyway.
C12_FailedDeliveryIsLost ==
    /\ [](/\ Len(posts) = Len(deliveries)
          /\ \A i \in DOMAIN posts : posts[i].attempts <= 1)
    /\ [][ /\ \A i \in DOMAIN posts :
                 posts[i].state = "rejected" => posts'[i] = posts[i]
           /\ (\E i \in DOMAIN posts :
                 posts[i].state = "pending" /\ posts'[i].state = "rejected")
                 => /\ UNCHANGED <<callBuffer, timers, deliveries>>
                    /\ Len(posts') = Len(posts) ]_vars

\* C12 witness: the POST of a flushed call failed and the call has neither an
\* entry nor a timer: its record is lost.
C12_Witness ==
    \E i \in DOMAIN posts :
        /\ posts[i].state = "rejected"
        /\ deliveries[i].callId \notin DOMAIN callBuffer
        /\ \A t \in timers : t.callId # deliveries[i].callId

\* C13: a delivery failure is contained on every flush path: every rejected
\* POST, whether its flush came from an end-of-call-report or from the fallback
\* timer, is caught by a handler.
C13_EveryRejectionIsCaught ==
    \A e \in DOMAIN errors : errors[e].caught

\* C14: without a delivery URL a flush still consumes the call's state: the
\* entry is removed and no timer of the call is left, no POST is made, nothing
\* is rejected, and every request is still answered.
C14_NoUrlFlushConsumesState ==
    ~zapierUrl =>
        /\ \A i \in DOMAIN posts : posts[i] = [state |-> "skipped", attempts |-> 0]
        /\ Len(posts) = Len(deliveries)
        /\ errors = << >>
        /\ last.op \in {"report", "fallback"} =>
              /\ last.callId \notin DOMAIN callBuffer
              /\ \A t \in timers : t.callId # last.callId
        /\ Len(acks) = nEvents

\* C14 witness: without a delivery URL a call was flushed and a later event was
\* handled and buffered.
C14_Witness ==
    /\ ~zapierUrl
    /\ Len(deliveries) >= 1
    /\ last.op = "buffer"
    /\ \E a \in DOMAIN acks : a < Len(acks) /\ acks[a].delivery # 0

---------------------------------------------------------------------------
(* The final-event relay: part_001. Its handler runs up to its first await, *)
(* and again when the awaited enrichment or delivery call returns.          *)

\* const msg = req.body?.message || req.body || {};
Msg(body) == Or(Or(Get(body, "message"), body), Obj(EmptyFields))

\* const artifact = msg.artifact || {};
Artifact(msg) == Or(Get(msg, "artifact"), Obj(EmptyFields))

\* const variables = artifact.variables || msg.variables || {};
Variables(msg) ==
    Or(Or(Get(Artifact(msg), "variables"), Get(msg, "variables")), Obj(EmptyFields))

\* const callObj = msg.call || msg;
CallObj(msg) == Or(Get(msg, "call"), msg)

\* const eventType = msg.type || null;
EventType(msg) == Or(Get(msg, "type"), Null)

getDurationSeconds(callObj, msg) ==
    IF Truthy(callObj) /\ ~IsNullish(Get(callObj, "durationSeconds"))
    THEN Get(callObj, "durationSeconds")
    ELSE IF Truthy(msg) /\ ~IsNullish(Get(msg, "durationSeconds"))
    THEN Get(msg, "durationSeconds")
    ELSE Null

getDurationMs(callObj, msg) ==
    IF Truthy(callObj) /\ ~IsNullish(Get(callObj, "durationMs"))
    THEN Get(callObj, "durationMs")
    ELSE IF Truthy(msg) /\ ~IsNullish(Get(msg, "durationMs"))
    THEN Get(msg, "durationMs")
    ELSE Null

\* const endedReason = callObj.endedReason || msg.endedReason || msg.endReason || null;
EndedReason(msg) ==
    Or(Or(Or(Get(CallObj(msg), "endedReason"), Get(msg, "endedReason")),
          Get(msg, "endReason")),
       Null)

isEndReport(msg) == EventType(msg) = Leaf(EndOfCallReport)

\* Mutant: a status-update with an ended reason is final whatever its duration.
isEarlyTerminalStatusAnyDuration(msg) ==
    EventType(msg) = Leaf(StatusUpdate) /\ Truthy(EndedReason(msg))

isEarlyTerminalStatus(msg) ==
    /\ EventType(msg) = Leaf(StatusUpdate)
    /\ Truthy(EndedReason(msg))
    /\ IsNullish(getDurationSeconds(CallObj(msg), msg))
    /\ IsNullish(getDurationMs(CallObj(msg), msg))

\* if (!isEndReport && !isEarlyTerminalStatus) return res.json({ ok: true, skipped: true });
NonFinal(msg) == ~isEndReport(msg) /\ ~isEarlyTerminalStatus(msg)

\* The customer phone number, looked up in variables, customer and call.
CustomerNumber(msg) ==
    Or(Or(Or(Or(At(Variables(msg), <<"customer", "number">>),
                At(Variables(msg), <<"phoneNumber", "customerNumber">>)),
             At(msg, <<"customer", "number">>)),
          Get(CallObj(msg), "customerNumber")),
       Null)

\* enrichPhone returns null without a lookup when the key or the number is missing.
EnrichSkipped(env, phoneNumber) == ~env.ABSTRACT_PHONE_API_KEY \/ ~Truthy(phoneNumber)

\* How the lookup can end: fetch rejects, a non-2xx answer, a body that is not
\* JSON, or a parsed answer.
EnrichOutcomes == {"rejects", "httpError", "badJson", "ok"}

\* What enrichPhone resolves to for each way the lookup ends.
enrichPhone(outcome) ==
    IF outcome = "ok"
    THEN Obj([phone_validation |-> Obj([is_valid |-> Leaf("true")])])
    ELSE Null

\* How the POST to the delivery URL can end: a 2xx answer, another answer, or
\* fetch rejects (connection refused, DNS failure, ...).
DeliverOutcomes == {"ok", "notOk", "rejects"}

\* The bodies posted to the relay: reports, terminal and non-terminal status
\* updates, another event type, and a report that is not wrapped in "message".
RelayBodies ==
    { Obj([message |-> Obj(m)]) : m \in
        { [type |-> Leaf(EndOfCallReport), call |-> Obj([id |-> Leaf("c1")]),
           customer |-> Obj([number |-> Leaf("+15550000000")])],
          [type |-> Leaf(EndOfCallReport), call |-> Obj([id |-> Leaf("c1")])],
          [type |-> Leaf(StatusUpdate),
           call |-> Obj([id |-> Leaf("c1"), endedReason |-> Leaf("customer-busy"),
                         customerNumber |-> Leaf("+15550000000")])],
          [type |-> Leaf(StatusUpdate),
           call |-> Obj([id |-> Leaf("c1"), endedReason |-> Leaf("customer-busy"),
                         durationSeconds |-> Leaf("42")])],
          [type |-> Leaf(StatusUpdate), endedReason |-> Leaf("customer-busy"),
           durationMs |-> Leaf("0"), call |-> Obj([id |-> Leaf("c1")])],
          [type |-> Leaf(StatusUpdate), call |-> Obj([id |-> Leaf("c1")])],
          [type |-> Leaf("transcript"), call |-> Obj([id |-> Leaf("c1")])] } }
    \cup { Obj([type |-> Leaf(EndOfCallReport), id |-> Leaf("c2"),
                variables |-> Obj([customer |-> Obj([number |-> Leaf("+15551234567")])])]) }

\* A request as the handler sees it on entry: nothing looked up, nothing
\* posted, no answer sent.
Request(body) ==
    [ body |-> body, pc |-> "start", status |-> 0, skipped |-> FALSE,
      lookups |-> 0, raw |-> Null, posts |-> 0, outcome |-> "none" ]

\* Lines 211-254: with the enrichment in hand, answer 500 when no delivery
\* URL is configured, and post the payload otherwise.
AfterEnrichment(env, req, raw) ==
    IF ~env.ZAPIER_HOOK_URL
    THEN [req EXCEPT !.raw = raw, !.pc = "done", !.status = 500]
    ELSE [req EXCEPT !.raw = raw, !.pc = "deliver", !.posts = @ + 1]

\* Lines 113-210: a non-final event is answered at once; a final one awaits
\* enrichPhone, which resolves at once when it makes no lookup.
Started(env, req, msg) ==
    IF NonFinal(msg)
    THEN [req EXCEPT !.pc = "done", !.status = 200, !.skipped = TRUE]
    ELSE IF EnrichSkipped(env, CustomerNumber(msg))
    THEN AfterEnrichment(env, req, Null)
    ELSE [req EXCEPT !.pc = "enrich", !.lookups = @ + 1]

\* app.post('/', handleVapiWebhook); app.post('/vapi-hook', handleVapiWebhook);
handleVapiWebhook(body) ==
    /\ Len(relayReqs) < MaxRequests
    /\ relayReqs' = Append(relayReqs, Started(relayEnv, Request(body), Msg(body)))
    /\ UNCHANGED <<relayEnv, bufVars, enrichVars, sentVars, procVars, scoreVars>>

\* The lookup of request r ends, and the handler goes on from line 210.
EnrichPhoneReturns(r, outcome) ==
    /\ relayReqs[r].pc = "enrich"
    /\ relayReqs' = [relayReqs EXCEPT
                        ![r] = AfterEnrichment(relayEnv, @, enrichPhone(outcome))]
    /\ UNCHANGED <<relayEnv, bufVars, enrichVars, sentVars, procVars, scoreVars>>

\* The POST of request r to the delivery URL ends: lines 250-265. A rejected
\* fetch is caught by the handler's catch, which answers 500.
ZapierFetchReturns(r, outcome) ==
    /\ relayReqs[r].pc = "deliver"
    /\ relayReqs' = [relayReqs EXCEPT
                        ![r] = [@ EXCEPT !.pc = "done", !.outcome = outcome,
                                         !.status = IF outcome = "rejects"
                                                    THEN 500 ELSE 200]]
    /\ UNCHANGED <<relayEnv, bufVars, enrichVars, sentVars, procVars, scoreVars>>

\* The relay after start-up, with or without each of its two settings.
RelayInit ==
    /\ relayEnv \in [ZAPIER_HOOK_URL : BOOLEAN, ABSTRACT_PHONE_API_KEY : BOOLEAN]
    /\ relayReqs = << >>
    /\ BufInit
    /\ EnrichIdle
    /\ SentIdle
    /\ ProcIdle
    /\ ScoreIdle

RelayNext ==
    \/ \E body \in RelayBodies : handleVapiWebhook(body)
    \/ \E r \in DOMAIN relayReqs : \E outcome \in EnrichOutcomes :
           EnrichPhoneReturns(r, outcome)
    \/ \E r \in DOMAIN relayReqs : \E outcome \in DeliverOutcomes :
           ZapierFetchReturns(r, outcome)

RelaySpec == RelayInit /\ [][RelayNext]_vars

\* Every POST to the delivery URL ends, with an answer or with an error.  The
\* lookup of enrichPhone is a fetch without timeout or abort signal (line 27)
\* and ends only when the enrichment service answers or the connection
\* breaks: nothing in the relay makes it end.
FairRelaySpec ==
    RelaySpec
    /\ WF_vars(\E r \in DOMAIN relayReqs : \E outcome \in DeliverOutcomes :
                   ZapierFetchReturns(r, outcome))

---------------------------------------------------------------------------
(* Properties of the final-event relay. *)

\* C10: every webhook POST handler answers every request with HTTP 200,
\* whatever happened inside: the event was skipped, the enrichment failed, the
\* delivery failed, the delivery URL is not configured, or an exception was
\* raised. Here: every answer the final-event relay has sent is a 200.
C10_EveryRequestIsAnswered200 ==
    \A r \in DOMAIN relayReqs :
        relayReqs[r].pc = "done" => relayReqs[r].status = 200

\* C17: an enrichment service that never answers does not hold the delivery
\* back for ever: a handler that waits for a lookup eventually stops waiting
\* and goes on to the delivery.
C17_DeliveryNotDelayedByEnrichment ==
    \A r \in 1..MaxRequests :
        (r \in DOMAIN relayReqs /\ relayReqs[r].pc = "enrich")
            ~> (r \in DOMAIN relayReqs /\ relayReqs[r].pc # "enrich")

\* The value a message gives a field, on its call object or on itself; the
\* message stands for its call object when it has none.
OnCallOrMessage(m, field) ==
    LET onCall == IF Truthy(Get(m, "call")) THEN At(m, <<"call", field>>)
                  ELSE Get(m, field)
    IN  <<onCall, Get(m, field)>>

\* An event that is final as the claim words it: an end-of-call-report, or a
\* status-update with a non-empty ended reason and neither durationSeconds
\* nor durationMs.
FinalAsClaimed(m) ==
    \/ Get(m, "type") = Leaf(EndOfCallReport)
    \/ /\ Get(m, "type") = Leaf(StatusUpdate)
       /\ \/ \E n \in 1..2 : Truthy(OnCallOrMessage(m, "endedReason")[n])
          \/ Truthy(Get(m, "endReason"))
       /\ \A n \in 1..2 : IsNullish(OnCallOrMessage(m, "durationSeconds")[n])
       /\ \A n \in 1..2 : IsNullish(OnCallOrMessage(m, "durationMs")[n])

\* C34: an event triggers enrichment and delivery only when it is final; every
\* other event is answered at once as skipped, with no enrichment call and no
\* delivery, and a final event is never answered as skipped.
C34_OnlyFinalEventsAreForwarded ==
    \A r \in DOMAIN relayReqs :
        IF FinalAsClaimed(Msg(relayReqs[r].body))
        THEN ~relayReqs[r].skipped
        ELSE /\ relayReqs[r].skipped
             /\ relayReqs[r].pc = "done"
             /\ relayReqs[r].status = 200
             /\ relayReqs[r].lookups = 0
             /\ relayReqs[r].posts = 0

\* C34 witness: a status-update with an ended reason and a duration was
\* answered as skipped, and a status-update with an ended reason and no
\* duration was enriched and posted.
C34_Witness ==
    \E r, q \in DOMAIN relayReqs :
        /\ Get(Msg(relayReqs[r].body), "type") = Leaf(StatusUpdate)
        /\ Truthy(At(Msg(relayReqs[r].body), <<"call", "endedReason">>))
        /\ Truthy(At(Msg(relayReqs[r].body), <<"call", "durationSeconds">>))
        /\ relayReqs[r].skipped
        /\ Get(Msg(relayReqs[q].body), "type") = Leaf(StatusUpdate)
        /\ relayReqs[q].lookups = 1
        /\ relayReqs[q].posts = 1

---------------------------------------------------------------------------
(* The enriching relay: index.js lines 190-400.  Its handler runs up to its *)
(* first await, and again when the awaited lookup or delivery returns.      *)
(* Its functions share their names with those of the other relays and are   *)
(* prefixed here with Index.                                                *)

\* const emptyResult = { valid: null, ... } (lines 298-304).
emptyResult ==
    [valid |-> Null, lineType |-> Null, carrier |-> Null, location |-> Null,
     countryName |-> Null]

\* const msg = body.message || body || {};
IndexMsg(body) == Or(Or(Get(body, "message"), body), Obj(EmptyFields))

\* const callObj = msg.call || msg.artifact?.call || {};
IndexCallObj(msg) ==
    Or(Or(Get(msg, "call"), At(msg, <<"artifact", "call">>)), Obj(EmptyFields))

\* const customerObj = msg.customer || msg.variables?.customer
\*                     || msg.variableValues?.customer || {};
IndexCustomerObj(msg) ==
    Or(Or(Or(Get(msg, "customer"), At(msg, <<"variables", "customer">>)),
          At(msg, <<"variableValues", "customer">>)),
       Obj(EmptyFields))

\* const analysisObj = msg.analysis || {};
IndexAnalysisObj(msg) == Or(Get(msg, "analysis"), Obj(EmptyFields))

\* const eventType = msg.type || body.type || "unknown";
IndexEventType(body, msg) == Or(Or(Get(msg, "type"), Get(body, "type")), Leaf("unknown"))

\* The object mapVapiEvent returns (lines 233-290).
IndexCleaned(body, msg, callObj, customerObj, analysisObj) ==
    [ eventType |-> IndexEventType(body, msg),
      call |-> Obj(
        [ id |-> Coalesce(Get(callObj, "id"), Null),
          startedAt |-> Coalesce(Coalesce(Get(msg, "startedAt"),
                                          Get(callObj, "startedAt")), Null),
          endedAt |-> Coalesce(Coalesce(Get(msg, "endedAt"),
                                        Get(callObj, "endedAt")), Null),
          endedReason |-> Coalesce(Get(msg, "endedReason"), Null),
          durationSeconds |-> Coalesce(Get(msg, "durationSeconds"), Null),
          durationMinutes |-> Coalesce(Get(msg, "durationMinutes"), Null),
          durationMs |-> Coalesce(Get(msg, "durationMs"), Null),
          cost |-> Coalesce(Coalesce(Get(msg, "cost"), Get(callObj, "cost")), Null) ]),
      customer |-> Obj(
        [ number |-> Or(Or(Or(Get(customerObj, "number"), Get(customerObj, "phone")),
                           Get(customerObj, "phoneNumber")), Null),
          name |-> Coalesce(Get(customerObj, "name"), Null),
          metadata |-> Coalesce(Get(customerObj, "metadata"), Null) ]),
      phoneEnrichment |-> Obj(emptyResult),
      analysis |-> Obj(
        [ summary |-> Coalesce(Coalesce(Get(analysisObj, "summary"),
                                        Get(msg, "summary")), Null),
          successEvaluation |-> Coalesce(Coalesce(Get(analysisObj, "successEvaluation"),
                                                  Get(msg, "successEvaluation")), Null),
          score |-> Coalesce(Get(analysisObj, "score"), Null) ]),
      structuredOutputs |-> Or(Or(Get(msg, "structuredOutputs"),
                                  At(msg, <<"artifact", "structuredOutputs">>)), Null),
      transcript |-> Coalesce(Get(msg, "transcript"), Null),
      recordingUrl |-> Coalesce(Get(msg, "recordingUrl"), Null),
      stereoRecordingUrl |-> Coalesce(Get(msg, "stereoRecordingUrl"), Null),
      scorecards |-> Or(Get(msg, "scorecards"), Null),
      rawEventType |-> IndexEventType(body, msg) ]

IndexMapWithMsg(body, msg) ==
    IndexCleaned(body, msg, IndexCallObj(msg), IndexCustomerObj(msg),
                 IndexAnalysisObj(msg))

\* mapVapiEvent (lines 207-291).
IndexMapVapiEvent(body) == IndexMapWithMsg(body, IndexMsg(body))

\* Mutant: the lookup is made whatever is configured and whatever the number.
IndexLookupAlways(env, phoneNumber) == TRUE

\* enrichPhone makes a lookup only with a phone number and an API key
\* (lines 307-315).
IndexLookupNeeded(env, phoneNumber) == Truthy(phoneNumber) /\ env.ABSTRACT_API_KEY

\* The enrichment built from a parsed answer (lines 334-340).
IndexEnrichmentOf(data) ==
    [ valid |-> Coalesce(Get(data, "valid"), Null),
      lineType |-> Coalesce(Get(data, "type"), Null),
      carrier |-> Coalesce(Get(data, "carrier"), Null),
      location |-> Coalesce(Get(data, "location"), Null),
      countryName |-> Coalesce(At(data, <<"country", "name">>), Null) ]

\* Mutant: enrichPhone has no try/catch, a throw reaches its caller.
IndexEnrichPhoneNoCatch(answer) ==
    IF answer.outcome \in {"rejects", "badJson"} \/ (answer.outcome = "ok" /\ answer.data = Null)
    THEN [threw |-> TRUE, value |-> emptyResult]
    ELSE IF answer.outcome = "httpError"
    THEN [threw |-> FALSE, value |-> emptyResult]
    ELSE [threw |-> FALSE, value |-> IndexEnrichmentOf(answer.data)]

\* What enrichPhone resolves to once its lookup has ended (lines 321-344): a
\* rejected fetch, a body that is not JSON and a JSON null are thrown and
\* caught, a non-2xx answer is tested, and all of them give emptyResult.
IndexEnrichPhone(answer) ==
    IF answer.outcome = "ok" /\ answer.data # Null
    THEN [threw |-> FALSE, value |-> IndexEnrichmentOf(answer.data)]
    ELSE [threw |-> FALSE, value |-> emptyResult]

\* How a lookup can end, with the parsed answer when there is one.
LookupAnswers ==
    { [outcome |-> o, data |-> Null] : o \in {"rejects", "httpError", "badJson", "ok"} }
    \cup { [outcome |-> "ok", data |-> d] : d \in
             { Obj([valid |-> Leaf("true"), type |-> Leaf("mobile"),
                    carrier |-> Leaf("Acme"), location |-> Leaf("Anaheim"),
                    country |-> Obj([name |-> Leaf("United States")])]),
               Obj(EmptyFields) } }

\* The lookups that fail: network error, non-success status, malformed body.
FailedAnswers == { a \in LookupAnswers : a.outcome # "ok" \/ a.data = Null }

\* The bodies posted to the relay: a status-update and a report of one call
\* with the caller's number, a report with the number under variables, a
\* status-update with an empty number, a report without number, and a report
\* whose customer object holds a name only, the number being under variables.
EnrichBodies ==
    { Obj([message |-> Obj(m)]) : m \in
        { [type |-> Leaf(StatusUpdate), call |-> Obj([id |-> Leaf("c1")]),
           customer |-> Obj([number |-> Leaf("+15550000000")])],
          [type |-> Leaf(EndOfCallReport), call |-> Obj([id |-> Leaf("c1")]),
           customer |-> Obj([number |-> Leaf("+15550000000")])],
          [type |-> Leaf(EndOfCallReport), call |-> Obj([id |-> Leaf("c1")]),
           variables |-> Obj([customer |-> Obj([phone |-> Leaf("+15550000000")])])],
          [type |-> Leaf(StatusUpdate), call |-> Obj([id |-> Leaf("c2")]),
           customer |-> Obj([number |-> Leaf("")])],
          [type |-> Leaf(EndOfCallReport), call |-> Obj([id |-> Leaf("c2")])],
          [type |-> Leaf(EndOfCallReport), call |-> Obj([id |-> Leaf("c2")]),
           customer |-> Obj([name |-> Leaf("Ann")]),
           variables |-> Obj([customer |-> Obj([number |-> Leaf("+15551234567")])])] } }

\* mapVapiEvent on the requests of the model, computed once.
IndexCleanedOf == [b \in EnrichBodies |-> IndexMapVapiEvent(b)]

\* A request as the handler holds it after mapVapiEvent: no lookup made,
\* nothing posted, no answer sent.
IndexRequest(body, cleaned) ==
    [ body |-> body, cleaned |-> cleaned, pc |-> "start", lookups |-> 0,
      answer |-> [outcome |-> "none", data |-> Null],
      posts |-> 0, posted |-> << >>, status |-> 0 ]

\* With the record enriched (line 357), skip the delivery when no URL is
\* configured and post the record otherwise (lines 365-375).
IndexForward(env, req, cleaned) ==
    IF ~env.ZAPIER_HOOK_URL
    THEN [req EXCEPT !.cleaned = cleaned, !.pc = "done", !.status = 200]
    ELSE [req EXCEPT !.cleaned = cleaned, !.pc = "deliver", !.posts = @ + 1,
                     !.posted = <<cleaned>>]

\* Lines 356-390 once enrichPhone has settled: a throw reaches the catch of the
\* route, which answers 500; a result is stored in cleaned.phoneEnrichment.
IndexAfterEnrichment(env, req, result) ==
    IF result.threw
    THEN [req EXCEPT !.pc = "done", !.status = 500]
    ELSE IndexForward(env, req, Put(req.cleaned, "phoneEnrichment", Obj(result.value)))

\* Lines 349-356: enrichPhone resolves at once when it makes no lookup.
IndexStarted(env, req, phoneNumber) ==
    IF IndexLookupNeeded(env, phoneNumber)
    THEN [req EXCEPT !.pc = "enrich", !.lookups = @ + 1]
    ELSE IndexAfterEnrichment(env, req, [threw |-> FALSE, value |-> emptyResult])

\* app.post("/vapi-hook") of the enriching relay, up to its first await.
IndexPostVapiHook(body) ==
    /\ Len(enrichReqs) < MaxRequests
    /\ enrichReqs' = Append(enrichReqs,
           IndexStarted(enrichEnv, IndexRequest(body, IndexCleanedOf[body]),
                        At(Obj(IndexCleanedOf[body]), <<"customer", "number">>)))
    /\ UNCHANGED <<enrichEnv, bufVars, relayVars, sentVars, procVars, scoreVars>>

\* The lookup of request r ends, and the handler goes on from line 356.
IndexEnrichReturns(r, answer) ==
    /\ enrichReqs[r].pc = "enrich"
    /\ enrichReqs' = [enrichReqs EXCEPT
           ![r] = IndexAfterEnrichment(enrichEnv,
                                       [@ EXCEPT !.answer = answer],
                                       IndexEnrichPhone(answer))]
    /\ UNCHANGED <<enrichEnv, bufVars, relayVars, sentVars, procVars, scoreVars>>

\* The POST of request r ends (lines 371-386): a rejected fetch is caught and
\* logged, and the request is answered 200 either way.
IndexZapierReturns(r, outcome) ==
    /\ enrichReqs[r].pc = "deliver"
    /\ enrichReqs' = [enrichReqs EXCEPT ![r] = [@ EXCEPT !.pc = "done", !.status = 200]]
    /\ UNCHANGED <<enrichEnv, bufVars, relayVars, sentVars, procVars, scoreVars>>

\* The relay after start-up, with or without each of its two settings.
EnrichInit ==
    /\ enrichEnv \in [ZAPIER_HOOK_URL : BOOLEAN, ABSTRACT_API_KEY : BOOLEAN]
    /\ enrichReqs = << >>
    /\ BufInit
    /\ RelayIdle
    /\ SentIdle
    /\ ProcIdle
    /\ ScoreIdle

EnrichNext ==
    \/ \E body \in EnrichBodies : IndexPostVapiHook(body)
    \/ \E r \in DOMAIN enrichReqs : \E answer \in LookupAnswers :
           IndexEnrichReturns(r, answer)
    \/ \E r \in DOMAIN enrichReqs : \E outcome \in FetchOutcomes :
           IndexZapierReturns(r, outcome)

EnrichSpec == EnrichInit /\ [][EnrichNext]_vars

---------------------------------------------------------------------------
(* Properties of the enriching relay. *)

\* The phone number and the call id of the record of a request.
NumberOf(req) == At(Obj(req.cleaned), <<"customer", "number">>)

IdOf(req) == At(Obj(req.cleaned), <<"call", "id">>)

\* C15: enrichment is invoked once per call, at flush time: no lookup is made
\* for a non-final event, and the requests of one call id make at most one
\* lookup between them.
C15_EnrichmentOncePerCallAtFlush ==
    /\ \A r \in DOMAIN enrichReqs :
          enrichReqs[r].cleaned["eventType"] # Leaf(EndOfCallReport)
              => enrichReqs[r].lookups = 0
    /\ \A id \in CallIds :
          Cardinality({ r \in DOMAIN enrichReqs :
                          IdOf(enrichReqs[r]) = Leaf(id) /\ enrichReqs[r].lookups > 0 }) <= 1

\* C16: a failed lookup (network error, non-success status, malformed body)
\* gives the empty enrichment and does not fail the pipeline: the handler goes
\* on, posts the normalised record with the empty enrichment when a delivery
\* URL is configured, and answers 200.
C16_EnrichmentFailureIsEmpty ==
    \A r \in DOMAIN enrichReqs :
        enrichReqs[r].answer \in FailedAnswers =>
            /\ enrichReqs[r].cleaned["phoneEnrichment"] = Obj(emptyResult)
            /\ enrichReqs[r].pc \in {"deliver", "done"}
            /\ enrichEnv.ZAPIER_HOOK_URL =>
                  /\ enrichReqs[r].posts = 1
                  /\ enrichReqs[r].posted = <<IndexCleanedOf[enrichReqs[r].body]>>
            /\ enrichReqs[r].pc = "done" => enrichReqs[r].status = 200

\* C16 witness: each kind of failure was followed by a POST and a 200.
C16_Witness ==
    \E r, q \in DOMAIN enrichReqs :
        /\ enrichReqs[r].answer.outcome = "rejects"
        /\ enrichReqs[q].answer.outcome \in {"httpError", "badJson"}
        /\ \A x \in {r, q} :
              /\ enrichReqs[x].posts = 1
              /\ enrichReqs[x].pc = "done"
              /\ enrichReqs[x].status = 200

\* C18: without a phone number or without the API key, enrichment gives the
\* empty result at once and makes no network call: the handler never waits
\* for a lookup.
C18_NoLookupWithoutNumberOrKey ==
    \A r \in DOMAIN enrichReqs :
        (~Truthy(NumberOf(enrichReqs[r])) \/ ~enrichEnv.ABSTRACT_API_KEY) =>
            /\ enrichReqs[r].lookups = 0
            /\ enrichReqs[r].pc # "enrich"
            /\ enrichReqs[r].answer.outcome = "none"
            /\ enrichReqs[r].cleaned["phoneEnrichment"] = Obj(emptyResult)

\* C18 witness: with the API key set, an event with an empty number and one
\* without number were posted without lookup; and without the key, so was an
\* event with a number.
C18_Witness ==
    \/ /\ enrichEnv.ABSTRACT_API_KEY
       /\ \E r, q \in DOMAIN enrichReqs :
             /\ NumberOf(enrichReqs[r]) = Leaf("")
             /\ NumberOf(enrichReqs[q]) = Null
             /\ enrichReqs[r].posts = 1 /\ enrichReqs[q].posts = 1
             /\ enrichReqs[r].lookups = 0 /\ enrichReqs[q].lookups = 0
    \/ /\ ~enrichEnv.ABSTRACT_API_KEY
       /\ \E r \in DOMAIN enrichReqs :
             /\ Truthy(NumberOf(enrichReqs[r]))
             /\ enrichReqs[r].posts = 1
             /\ enrichReqs[r].lookups = 0

\* The numbers a message offers, in the order of precedence: customer.number,
\* variables.customer.number, variableValues.customer.number.
NumberCandidates(msg) ==
    << At(msg, <<"customer", "number">>),
       At(msg, <<"variables", "customer", "number">>),
       At(msg, <<"variableValues", "customer", "number">>) >>

\* C26 as stated: the number of the normalised record is the first non-empty
\* number among the candidates, also when an earlier candidate object exists
\* and holds no number.
C26_NumberIsFirstNonEmptyCandidate ==
    \A r \in DOMAIN enrichReqs :
        LET cands == NumberCandidates(IndexMsg(enrichReqs[r].body))
            holders == { n \in DOMAIN cands : Truthy(cands[n]) }
        IN  holders # {}
                => NumberOf(enrichReqs[r])
                       = cands[CHOOSE n \in holders : \A m \in holders : n <= m]


---------------------------------------------------------------------------
(* The sentCalls relay: index.js lines 104-188.  Its handler runs up to its   *)
(* await of sendToZapier, and again when that call returns.  index.js does   *)
(* not define the sendToZapier this handler calls; it is modelled as the     *)
(* delivery client the specification describes: one POST, which suspends     *)
(* its caller and returns an outcome.                                        *)

\* The messages posted to the relay: a report and an ended status-update of a
\* first call, a status-update of it that is not ended, a message of another
\* type, a report without call id and an ended status-update of a second call.
SentMessages ==
    { [type |-> Leaf(EndOfCallReport), call |-> Obj([id |-> Leaf("c1")]),
       customer |-> Obj([number |-> Leaf("+15550000000")]),
       endedReason |-> Leaf("customer-ended-call"),
       analysis |-> Obj([summary |-> Leaf("ok")])],
      [type |-> Leaf(StatusUpdate), status |-> Leaf("ended"),
       call |-> Obj([id |-> Leaf("c1")])],
      [type |-> Leaf(StatusUpdate), status |-> Leaf("in-progress"),
       call |-> Obj([id |-> Leaf("c1")])],
      [type |-> Leaf("transcript"), call |-> Obj([id |-> Leaf("c1")])],
      [type |-> Leaf(EndOfCallReport), transcript |-> Leaf("hello")],
      [type |-> Leaf(StatusUpdate), status |-> Leaf("ended"),
       call |-> Obj([id |-> Leaf("c2")]),
       variables |-> Obj([customer |-> Obj([number |-> Leaf("+15551234567")])])] }

\* The bodies posted to the relay: each message, and a body without message.
SentBodies == { Obj([message |-> Obj(m)]) : m \in SentMessages } \cup { Obj(EmptyFields) }

\* const callId = message.call?.id ?? null (lines 115 and 158).
SentCallId(message) == Coalesce(At(message, <<"call", "id">>), Null)

\* callId && sentCalls.has(callId) (lines 116 and 159).
AlreadySent(sent, callId) == Truthy(callId) /\ callId.leaf \in sent

\* if (callId) sentCalls.add(callId) (lines 146 and 182).
SentCallsAdd(sent, callId) == IF Truthy(callId) THEN sent \cup {callId.leaf} ELSE sent

\* The payload of the end-of-call-report branch (lines 121-143).
SentCleaned(message) ==
    [source |-> Leaf(EndOfCallReport),
     callId |-> SentCallId(message),
     assistantName |-> Coalesce(At(message, <<"assistant", "name">>), Null),
     assistantPhone |-> Coalesce(At(message, <<"phoneNumber", "number">>), Null),
     customerPhone |->
         Coalesce(Coalesce(Coalesce(At(message, <<"customer", "number">>),
                                    At(message, <<"variables", "customer", "number">>)),
                           At(message, <<"variableValues", "customer", "number">>)),
                  Null),
     endedReason |-> Coalesce(Get(message, "endedReason"), Null),
     durationSeconds |-> Coalesce(Get(message, "durationSeconds"), Null),
     successEvaluation |->
         Coalesce(Coalesce(At(message, <<"analysis", "successEvaluation">>),
                           Get(message, "successEvaluation")),
                  Null),
     callSummary |->
         Coalesce(Coalesce(At(message, <<"analysis", "summary">>),
                           Get(message, "summary")),
                  Null),
     transcript |-> Coalesce(Get(message, "transcript"), Null)]

\* The payload of the status-update branch (lines 164-179).
SentFallback(message) ==
    [source |-> Leaf(StatusUpdate),
     callId |-> SentCallId(message),
     assistantName |-> Coalesce(At(message, <<"assistant", "name">>), Null),
     assistantPhone |-> Coalesce(At(message, <<"phoneNumber", "number">>), Null),
     customerPhone |->
         Coalesce(Coalesce(At(message, <<"customer", "number">>),
                           At(message, <<"variables", "customer", "number">>)),
                  Null),
     endedReason |-> Coalesce(Coalesce(Get(message, "endedReason"),
                                       Get(message, "status")),
                              Null),
     durationSeconds |-> Coalesce(Get(message, "durationSeconds"), Null),
     successEvaluation |-> Leaf("false"),
     callSummary |-> Null,
     transcript |-> Null]

\* A request answered 200 without a delivery.
SentAnswered(body) ==
    [body |-> body, pc |-> "done", posted |-> << >>, outcome |-> "none", status |-> 200]

\* The delivery client as the handler sees it up to its await: one POST of the
\* payload is started and the handler is suspended until it returns.
SentSendToZapier(body, payload) ==
    [body |-> body, pc |-> "await", posted |-> <<payload>>, outcome |-> "none",
     status |-> 0]

\* The handler from line 108 up to its response or its await.
SentHandle(sent, body, message) ==
    IF ~Truthy(message) THEN SentAnswered(body)
    ELSE IF Get(message, "type") = Leaf(EndOfCallReport)
    THEN IF AlreadySent(sent, SentCallId(message)) THEN SentAnswered(body)
         ELSE SentSendToZapier(body, SentCleaned(message))
    ELSE IF Get(message, "type") = Leaf(StatusUpdate)
    THEN IF Get(message, "status") # Leaf("ended") THEN SentAnswered(body)
         ELSE IF AlreadySent(sent, SentCallId(message)) THEN SentAnswered(body)
         ELSE SentSendToZapier(body, SentFallback(message))
    ELSE SentAnswered(body)

\* app.post("/") of the sentCalls relay (lines 107-188), up to its await.
SentPost(body) ==
    /\ Len(sentReqs) < MaxRequests
    /\ sentReqs' = Append(sentReqs, SentHandle(sentCalls, body, Get(body, "message")))
    /\ UNCHANGED <<sentCalls, bufVars, relayVars, enrichVars, procVars, scoreVars>>

\* How a delivery ends for its caller.
SentOutcomes == {"delivered", "failed"}

\* sendToZapier returns to request r: the call id is recorded and the request
\* answered 200 (lines 146-147 and 182-183).
SentZapierReturns(r, outcome) ==
    /\ sentReqs[r].pc = "await"
    /\ sentCalls' = SentCallsAdd(sentCalls, sentReqs[r].posted[1]["callId"])
    /\ sentReqs' = [sentReqs EXCEPT
           ![r] = [@ EXCEPT !.pc = "done", !.outcome = outcome, !.status = 200]]
    /\ UNCHANGED <<bufVars, relayVars, enrichVars, procVars, scoreVars>>

\* The sentCalls relay after start-up.
SentInit ==
    /\ sentCalls = {}
    /\ sentReqs = << >>
    /\ BufInit
    /\ RelayIdle
    /\ EnrichIdle
    /\ ProcIdle
    /\ ScoreIdle

SentNext ==
    \/ \E body \in SentBodies : SentPost(body)
    \/ \E r \in DOMAIN sentReqs : \E outcome \in SentOutcomes :
           SentZapierReturns(r, outcome)

SentSpec == SentInit /\ [][SentNext]_vars

---------------------------------------------------------------------------
(* Properties of the sentCalls relay. *)

\* The requests of the relay that sent a payload for a call id.
SentFor(id) ==
    { r \in DOMAIN sentReqs :
          sentReqs[r].posted # << >> /\ sentReqs[r].posted[1]["callId"] = Leaf(id) }

\* C28 as stated: for any call id and any interleaving of the requests of that
\* call, at most one payload is sent to Zapier.
C28_AtMostOnePayloadPerCall ==
    \A id \in CallIds : Cardinality(SentFor(id)) <= 1


---------------------------------------------------------------------------
(* The processedCalls relay: part_002.  Its handler runs up to its first     *)
(* await that waits for the network, and again when the awaited lookup or    *)
(* delivery returns.                                                         *)

\* The events posted to the relay (the relay reads type, call and customer from
\* the body itself): reports of a first call with and without call.endedReason,
\* status-updates of it with and without call.endedReason, an event of another
\* type, a short report of a second call, and the final events of two callers
\* whose events carry no call id.
ProcBodies ==
    { Obj(e) : e \in
        { [type |-> Leaf(EndOfCallReport),
           call |-> Obj([id |-> Leaf("c1"), endedReason |-> Leaf("customer-ended-call"),
                         durationSeconds |-> Leaf("42")]),
           customer |-> Obj([number |-> Leaf("+15550000000")]),
           structuredOutputs |-> Obj([successEvaluationLabel |-> Leaf("good")])],
          [type |-> Leaf(EndOfCallReport), call |-> Obj([id |-> Leaf("c1")]),
           endedReason |-> Leaf("customer-ended-call")],
          [type |-> Leaf(StatusUpdate),
           call |-> Obj([id |-> Leaf("c1"),
                         endedReason |-> Leaf("customer-did-not-answer")])],
          [type |-> Leaf(StatusUpdate), call |-> Obj([id |-> Leaf("c1")])],
          [type |-> Leaf("transcript"), call |-> Obj([id |-> Leaf("c1")])],
          [type |-> Leaf(EndOfCallReport),
           call |-> Obj([id |-> Leaf("c2"), endedReason |-> Leaf("customer-ended-call"),
                         durationSeconds |-> Leaf("3")]),
           customer |-> Obj([number |-> Leaf("+15551234567")])],
          [type |-> Leaf(EndOfCallReport),
           call |-> Obj([endedReason |-> Leaf("customer-ended-call")]),
           customer |-> Obj([number |-> Leaf("+15550000000")])],
          [type |-> Leaf(StatusUpdate),
           call |-> Obj([endedReason |-> Leaf("customer-did-not-answer")]),
           customer |-> Obj([number |-> Leaf("+15551234567")])],
          [type |-> Leaf(EndOfCallReport),
           call |-> Obj([id |-> Leaf("c2"), endedReason |-> Leaf("customer-ended-call"),
                         durationSeconds |-> Leaf("42")]),
           structuredOutputs |->
               Obj([successEvaluationLabel |-> Obj([label |-> Leaf("good")])])] } }

\* const call = event.call || {} (line 126).
ProcCall(event) == Or(Get(event, "call"), Obj(EmptyFields))

\* const customer = event.customer || {} (line 127).
ProcCustomer(event) == Or(Get(event, "customer"), Obj(EmptyFields))

\* const analysis = event.analysis || {} (line 128).
ProcAnalysis(event) == Or(Get(event, "analysis"), Obj(EmptyFields))

\* event.structuredOutputs || analysis.structuredOutputs || {} (lines 129-130).
ProcStructuredOutputs(event) ==
    Or(Or(Get(event, "structuredOutputs"),
          Get(ProcAnalysis(event), "structuredOutputs")),
       Obj(EmptyFields))

\* const callId = call.id || event.callId || 'unknown-call-id' (line 132).
ProcCallId(event) ==
    Or(Or(Get(ProcCall(event), "id"), Get(event, "callId")), Leaf(UnknownCallId))

\* const hasEndedReason = !!call.endedReason (line 133).
hasEndedReason(event) == Truthy(Get(ProcCall(event), "endedReason"))

\* Only status-update and end-of-call-report are processed (lines 122-124).
ProcIgnored(event) == Get(event, "type") \notin {Leaf(StatusUpdate), Leaf(EndOfCallReport)}

\* hasEndedReason && global.processedCalls.has(callId) (lines 136-139).
ProcDeduped(processed, event) ==
    hasEndedReason(event) /\ ProcCallId(event).leaf \in processed

\* The events forwarded to Zapier (lines 142-144).
shouldForward(event) ==
    \/ Get(event, "type") = Leaf(EndOfCallReport)
    \/ Get(event, "type") = Leaf(StatusUpdate) /\ hasEndedReason(event)

\* Mutant: the call id is never recorded.
ProcessedAddNever(processed, event) == processed

\* if (hasEndedReason) global.processedCalls.add(callId) (lines 151-153).
ProcessedAdd(processed, event) ==
    IF hasEndedReason(event) THEN processed \cup {ProcCallId(event).leaf} ELSE processed

\* enrichPhoneNumber makes no lookup without API key or phone number (lines 25-27).
ProcLookupNeeded(env, phoneNumber) == env.ABSTRACT_PHONE_API_KEY /\ Truthy(phoneNumber)

\* How a lookup can end: axios.get throws (network error, non-success status,
\* the 8000 ms timeout of line 35) or returns the parsed response.
ProcAnswers ==
    { [outcome |-> "throws", data |-> Null], [outcome |-> "ok", data |-> Null],
      [outcome |-> "ok",
       data |-> Obj([phone_validation |-> Obj([is_valid |-> Leaf("true")]),
                     phone_carrier |-> Obj([name |-> Leaf("Acme"),
                                            line_type |-> Leaf("mobile")]),
                     phone_location |-> Obj([city |-> Leaf("Anaheim"),
                                             region |-> Leaf("CA"),
                                             country_name |-> Leaf("United States")])])] }

\* The location of a lookup (lines 50-52): "city, region", or the one there is.
ProcLocation(loc) ==
    IF Truthy(Get(loc, "city")) /\ Truthy(Get(loc, "region"))
    THEN Leaf(Get(loc, "city").leaf \o ", " \o Get(loc, "region").leaf)
    ELSE Or(Or(Get(loc, "city"), Get(loc, "region")), Null)

\* enrichPhoneNumber once its lookup has ended (lines 29-57): null when the
\* lookup threw, the five fields of the response otherwise.
enrichPhoneNumber(answer) ==
    IF answer.outcome = "throws" THEN Null
    ELSE LET data == Or(answer.data, Obj(EmptyFields))
             loc == Or(Get(data, "phone_location"), Obj(EmptyFields))
             carrier == Or(Get(data, "phone_carrier"), Obj(EmptyFields))
             validation == Or(Get(data, "phone_validation"), Obj(EmptyFields))
         IN  Obj([valid |-> Coalesce(Get(validation, "is_valid"), Null),
                  lineType |-> Coalesce(Get(carrier, "line_type"), Null),
                  carrier |-> Coalesce(Get(carrier, "name"), Null),
                  location |-> ProcLocation(loc),
                  countryName |-> Coalesce(Get(loc, "country_name"), Null)])

\* Number(call.durationSeconds || 0) (line 68) on the durations of the model:
\* NaN for a value that is not the text of a number.
ProcDuration(call) ==
    LET d == Or(Get(call, "durationSeconds"), Leaf("0"))
        n == [t \in {"0", "3", "4", "5", "29", "30", "42"} |->
                 CASE t = "0" -> 0 [] t = "3" -> 3 [] t = "4" -> 4 [] t = "5" -> 5
                   [] t = "29" -> 29 [] t = "30" -> 30 [] t = "42" -> 42]
    IN  IF ~IsObj(d) /\ d.leaf \in DOMAIN n
        THEN [nan |-> FALSE, n |-> n[d.leaf]]
        ELSE [nan |-> TRUE, n |-> 0]

\* s.toLowerCase() on the strings of the model.
ToLowerCase(s) ==
    CASE s = "Excellent" -> "excellent"
      [] s = "GOOD" -> "good"
      [] s = "Voicemail" -> "voicemail"
      [] OTHER -> s

\* (v || '').toLowerCase() (lines 69 and 97): a value that is truthy and not a
\* string has no toLowerCase, and the call throws a TypeError.
LowerOrEmpty(v) ==
    IF ~Truthy(v) THEN [threw |-> FALSE, text |-> ""]
    ELSE IF IsObj(v) \/ ~IsString(v) THEN [threw |-> TRUE, text |-> ""]
    ELSE [threw |-> FALSE, text |-> ToLowerCase(v.leaf)]

\* badReasons.some(r => endedReason.includes(r)) on the lower-case ended
\* reasons of the model (lines 72-87): those that contain a bad reason.
ProcBadReason(endedReason) ==
    endedReason \in {"customer-did-not-answer", "voicemail", "customer-busy"}

\* computeIdentityScore (lines 67-108), in the order of the code: the ended
\* reason is lower-cased on entry, the label only once the call is neither bad
\* nor shorter than 5 s; a comparison with NaN is false.
computeIdentityScore(call, successLabel) ==
    LET duration == ProcDuration(call)
        endedReason == LowerOrEmpty(Get(call, "endedReason"))
        label == LowerOrEmpty(successLabel)
        returns(score) == [threw |-> FALSE, value |-> Leaf(score)]
        throws == [threw |-> TRUE, value |-> Undefined]
    IN  IF endedReason.threw THEN throws
        ELSE IF ProcBadReason(endedReason.text) THEN returns("0")
        ELSE IF ~duration.nan /\ duration.n < 5 THEN returns("0")
        ELSE IF label.threw THEN throws
        ELSE IF /\ ~duration.nan /\ duration.n >= 30
                /\ label.text \in {"excellent", "good"}
        THEN returns("70")
        ELSE returns("50")

\* structuredOutputs?.successEvaluationLabel
\*     || structuredOutputs?.['Success Evaluation - Descriptive'] || null (lines 159-162).
ProcSuccessLabel(so) ==
    Or(Or(Get(so, "successEvaluationLabel"),
          Get(so, "Success Evaluation - Descriptive")),
       Null)

\* cleanedPayload (lines 171-194).
ProcPayloadOf(event, call, so, phoneEnrichment) ==
    [eventType |-> Get(event, "type"),
     call |-> Obj([id |-> ProcCallId(event),
                   startedAt |-> Or(Get(call, "startedAt"), Null),
                   endedAt |-> Or(Get(call, "endedAt"), Null),
                   endedReason |-> Or(Get(call, "endedReason"), Null),
                   durationSeconds |-> Coalesce(Get(call, "durationSeconds"), Null),
                   durationMinutes |-> Coalesce(Get(call, "durationMinutes"), Null),
                   durationMs |-> Coalesce(Get(call, "durationMs"), Null),
                   cost |-> Coalesce(Get(call, "cost"), Leaf("0"))]),
     customer |-> Obj([number |-> Or(Get(ProcCustomer(event), "number"), Null)]),
     phoneEnrichment |-> phoneEnrichment,
     successEvaluation |-> Coalesce(Get(ProcAnalysis(event), "successEvaluation"), Null),
     successEvaluationScore |-> Coalesce(Get(event, "score"), Null),
     successEvaluationLabel |-> ProcSuccessLabel(so),
     identityValidationScore |-> computeIdentityScore(call, ProcSuccessLabel(so)).value,
     structuredOutputs |-> so,
     metadata |-> Or(Get(event, "metadata"), Null)]

ProcPayload(event, phoneEnrichment) ==
    ProcPayloadOf(event, ProcCall(event), ProcStructuredOutputs(event), phoneEnrichment)

\* A request answered 200 without a delivery (lines 123, 138 and 148).
ProcAnswered(body) ==
    [body |-> body, pc |-> "done", posted |-> << >>, outcome |-> "none", status |-> 200]

\* Lines 159-220 once the enrichment is known: a throw of computeIdentityScore
\* rejects the handler's promise, which nothing catches, and the request is
\* never answered; without ZAPIER_HOOK_URL the POST is skipped and the request
\* answered, otherwise the payload is posted.
ProcForward(env, body, phoneEnrichment) ==
    IF computeIdentityScore(ProcCall(body),
                            ProcSuccessLabel(ProcStructuredOutputs(body))).threw
    THEN [body |-> body, pc |-> "failed", posted |-> << >>, outcome |-> "none",
          status |-> 0]
    ELSE IF ~env.ZAPIER_HOOK_URL THEN ProcAnswered(body)
    ELSE [body |-> body, pc |-> "deliver",
          posted |-> <<ProcPayload(body, phoneEnrichment)>>, outcome |-> "none",
          status |-> 0]

\* Line 156: the handler waits for the lookup when enrichPhoneNumber makes one.
ProcStarted(env, body, phoneNumber) ==
    IF ProcLookupNeeded(env, phoneNumber)
    THEN [body |-> body, pc |-> "enrich", posted |-> << >>, outcome |-> "none",
          status |-> 0]
    ELSE ProcForward(env, body, Null)

\* app.post("/vapi-hook") of the processedCalls relay (lines 115-221), up to
\* its first await of the network.  event is req.body || {}.
ProcPostVapiHook(body) ==
    /\ Len(procReqs) < MaxRequests
    /\ IF ProcIgnored(body) \/ ProcDeduped(processedCalls, body) \/ ~shouldForward(body)
       THEN /\ procReqs' = Append(procReqs, ProcAnswered(body))
            /\ UNCHANGED processedCalls
       ELSE /\ processedCalls' = ProcessedAdd(processedCalls, body)
            /\ procReqs' = Append(procReqs,
                   ProcStarted(procEnv, body,
                               Or(Get(ProcCustomer(body), "number"), Null)))
    /\ UNCHANGED <<procEnv, bufVars, relayVars, enrichVars, sentVars, scoreVars>>

\* The lookup of request r ends, and the handler goes on from line 159.
ProcEnrichReturns(r, answer) ==
    /\ procReqs[r].pc = "enrich"
    /\ procReqs' = [procReqs EXCEPT
           ![r] = ProcForward(procEnv, @.body, enrichPhoneNumber(answer))]
    /\ UNCHANGED <<processedCalls, procEnv, bufVars, relayVars, enrichVars, sentVars,
                   scoreVars>>

\* The POST of request r ends (lines 206-217): a rejected POST is caught and
\* logged, and the request is answered 200 either way (line 220).
ProcZapierReturns(r, outcome) ==
    /\ procReqs[r].pc = "deliver"
    /\ procReqs' = [procReqs EXCEPT
           ![r] = [@ EXCEPT !.pc = "done", !.outcome = outcome, !.status = 200]]
    /\ UNCHANGED <<processedCalls, procEnv, bufVars, relayVars, enrichVars, sentVars,
                   scoreVars>>

\* The relay after start-up, with or without each of its two settings.
ProcInit ==
    /\ processedCalls = {}
    /\ procEnv \in [ZAPIER_HOOK_URL : BOOLEAN, ABSTRACT_PHONE_API_KEY : BOOLEAN]
    /\ procReqs = << >>
    /\ BufInit
    /\ RelayIdle
    /\ EnrichIdle
    /\ SentIdle
    /\ ScoreIdle

ProcNext ==
    \/ \E body \in ProcBodies : ProcPostVapiHook(body)
    \/ \E r \in DOMAIN procReqs : \E answer \in ProcAnswers : ProcEnrichReturns(r, answer)
    \/ \E r \in DOMAIN procReqs : \E outcome \in FetchOutcomes : ProcZapierReturns(r, outcome)

ProcSpec == ProcInit /\ [][ProcNext]_vars

---------------------------------------------------------------------------
(* Properties of the processedCalls relay. *)

\* The requests of the relay that forwarded a payload for a call id.
ForwardedFor(id) ==
    { r \in DOMAIN procReqs :
          /\ procReqs[r].posted # << >>
          /\ procReqs[r].posted[1]["call"].obj["id"] = Leaf(id) }

\* C29 as stated: for any sequence of status-update and end-of-call-report
\* events of one call id, at most one payload is forwarded to Zapier.
C29_AtMostOneForwardPerCall ==
    \A id \in CallIds : Cardinality(ForwardedFor(id)) <= 1


\* The requests of the relay that carry a call id and a non-empty
\* call.endedReason.
EndedFor(id) ==
    { r \in DOMAIN procReqs :
          hasEndedReason(procReqs[r].body) /\ ProcCallId(procReqs[r].body) = Leaf(id) }

\* C32 as stated: of the requests that carry the same call id and a non-empty
\* call.endedReason, exactly one is forwarded to Zapier once their handlers
\* have all run to their end.
C32_ExactlyOneEndedRequestForwarded ==
    \A id \in CallIds :
        (/\ EndedFor(id) # {}
         /\ \A r \in EndedFor(id) : procReqs[r].pc \in {"done", "failed"})
            => Cardinality({ r \in EndedFor(id) : procReqs[r].posted # << >> }) = 1

\* C32, the part that holds: the first request that carries a call id and a
\* non-empty call.endedReason records the id in processedCalls before it waits
\* for anything, and the id stays recorded whatever becomes of the request;
\* every later such request is answered at once with nothing posted, also
\* while the first is still waiting; the first is forwarded when
\* ZAPIER_HOOK_URL is configured and its handler has not thrown, and without
\* the URL no request is forwarded at all.
C32_FirstEndedRequestAloneProceeds ==
    /\ [](\A id \in CallIds : \A r \in EndedFor(id) :
             /\ id \in processedCalls
             /\ (\E q \in EndedFor(id) : q < r)
                    => procReqs[r].pc = "done" /\ procReqs[r].posted = << >>
             /\ (\A q \in EndedFor(id) : r <= q)
                    => IF procEnv.ZAPIER_HOOK_URL
                       THEN \/ procReqs[r].pc \in {"enrich", "failed"}
                            \/ procReqs[r].posted # << >>
                       ELSE procReqs[r].posted = << >>)
    /\ [][processedCalls \subseteq processedCalls']_vars

\* C32 witness: of two requests of one call with call.endedReason the second
\* was answered with nothing posted, and the delivery of the first failed with
\* the call still recorded.
C32_Witness ==
    \E id \in CallIds : \E r, q \in EndedFor(id) :
        /\ r < q
        /\ procReqs[r].outcome = "rejected"
        /\ procReqs[r].posted # << >>
        /\ procReqs[q].pc = "done"
        /\ procReqs[q].posted = << >>
        /\ id \in processedCalls


\* The call id an event carries itself: call.id or event.callId, falsy when
\* it carries none.
ExternalId(event) == Or(Get(ProcCall(event), "id"), Get(event, "callId"))

\* The requests the de-dupe check suppressed, the relay having a delivery URL:
\* events of a forwarded kind that were answered with nothing posted.
Suppressed(r) ==
    /\ procEnv.ZAPIER_HOOK_URL
    /\ ~ProcIgnored(procReqs[r].body)
    /\ shouldForward(procReqs[r].body)
    /\ procReqs[r].pc = "done"
    /\ procReqs[r].posted = << >>

\* C33 as stated: an event is suppressed by the de-dupe check only when an
\* earlier event of the same externally assigned call id passed it; a final
\* event that carries no call id is never suppressed.
C33_SuppressedOnlyBySameCall ==
    \A r \in DOMAIN procReqs :
        Suppressed(r)
            => /\ Truthy(ExternalId(procReqs[r].body))
               /\ \E q \in 1..(r - 1) :
                     /\ ExternalId(procReqs[q].body) = ExternalId(procReqs[r].body)
                     /\ ~Suppressed(q)
                     /\ shouldForward(procReqs[q].body)


----------------------------------------------------------------------------
\* computeIdentityScore on its own (src/unnamed/part_002, lines 60-108).

\* The call objects the function is applied to: durations below, at and above
\* both thresholds, a duration that is no number, and ended reasons that are
\* absent, harmless, bad in either case, a number and an object.
ScoreCalls ==
    { Obj(c) : c \in
        { PutIf(~IsUndefined(e),
                PutIf(~IsUndefined(d), EmptyFields, "durationSeconds", d),
                "endedReason", e) :
            d \in {Undefined, Leaf("0"), Leaf("4"), Leaf("5"), Leaf("29"), Leaf("30"),
                   Leaf("42"), Leaf("abc")},
            e \in {Undefined, Leaf("customer-ended-call"), Leaf("Voicemail"),
                   Leaf("customer-busy"), Leaf("customer-did-not-answer"),
                   Leaf("42"), Obj([code |-> Leaf("42")])} } }

\* The success labels it is applied to: what the handler can read from the
\* structured outputs of an event.
ScoreLabels ==
    {Null, Leaf(""), Leaf("good"), Leaf("GOOD"), Leaf("Excellent"), Leaf("excellent"),
     Leaf("poor"), Leaf("42"), Leaf("true"), Obj([label |-> Leaf("good")])}

\* The call of computeIdentityScore({ call, successLabel }) of line 165.
ScoreCall ==
    /\ scoreResult.state = "none"
    /\ LET r == computeIdentityScore(scoreArgs.call, scoreArgs.successLabel)
       IN  scoreResult' = [state |-> IF r.threw THEN "threw" ELSE "returned",
                           value |-> r.value]
    /\ UNCHANGED <<scoreArgs, bufVars, relayVars, enrichVars, sentVars, procVars>>

ScoreInit ==
    /\ BufInit
    /\ RelayIdle
    /\ EnrichIdle
    /\ SentIdle
    /\ ProcIdle
    /\ scoreArgs \in [call : ScoreCalls, successLabel : ScoreLabels]
    /\ scoreResult = [state |-> "none", value |-> Null]

ScoreNext == ScoreCall

ScoreSpec == ScoreInit /\ [][ScoreNext]_vars

\* C35: computeIdentityScore always returns one of 0, 50 or 70: 0 when the
\* ended reason contains a bad reason or the duration is under 5 seconds, 70
\* only when the duration is at least 30 seconds and the success label is
\* 'excellent' or 'good' ignoring case, and 50 in every other case.
C35_ScoreIsAlwaysReturned ==
    scoreResult.state # "none" =>
        LET duration == ProcDuration(scoreArgs.call)
            endedReason == Or(Get(scoreArgs.call, "endedReason"), Leaf(""))
            bad == ~IsObj(endedReason) /\ ProcBadReason(ToLowerCase(endedReason.leaf))
            short == ~duration.nan /\ duration.n < 5
            long == ~duration.nan /\ duration.n >= 30
            label == scoreArgs.successLabel
            praised == /\ ~IsObj(label)
                       /\ ToLowerCase(label.leaf) \in {"excellent", "good"}
        IN  /\ scoreResult.state = "returned"
            /\ scoreResult.value \in {Leaf("0"), Leaf("50"), Leaf("70")}
            /\ bad \/ short => scoreResult.value = Leaf("0")
            /\ scoreResult.value = Leaf("70") => long /\ praised
            /\ ~(bad \/ short) /\ ~(long /\ praised) => scoreResult.value = Leaf("50")

=============================================================================
